---- MODULE Spec2Model ----
(***************************************************************************)
(* Leaderboard synchronisation and reconciliation engine of the TV         *)
(* dashboard: the reconciliation pass of useAgentLeaderboard              *)
(* (src/src/hooks/use-agent-leaderboard.ts) and the retrying fetch of the  *)
(* polling client (src/src/hooks/use-external-leaderboard.ts).             *)
(***************************************************************************)
EXTENDS Integers, Sequences, FiniteSets, TLC

VARIABLES
    externalAgents,     \* useLeaderboardStream: agents (the live payload held)
    externalStats,      \* useLeaderboardStream: stats (the feed's own summary)
    isLoading,          \* useLeaderboardStream: isLoading
    mappedAgents,       \* useMemo result: live payload mapped (and enriched)
    rebsAgentsRef,      \* rebsAgentsRef.current: the enrichment records
    rebsAgentsLoaded,   \* useState rebsAgentsLoaded, as of the last render
    loadedQueued,       \* setRebsAgentsLoaded(true) was called, render pending
    rebsFetch,          \* position of fetchRebsAgents: "unmounted", "pending", "done"
    retryCount,         \* fetchRebsAgents' retryCount argument
    retryDelay,         \* delay in ms the last retry of fetchRebsAgents was scheduled with, 0 for none
    previousAgentsRef,  \* previousAgentsRef.current
    agents,             \* useState agents: the display list
    rankChanges,        \* useState rankChanges
    stats,              \* useState stats: the summary shown
    pass,               \* history: inputs of the most recent reconciliation pass
    script,             \* what the upstream answers to the 1st, 2nd, ... request
    attempt,            \* fetchWithRetry: loop variable
    fetchPc,            \* fetchWithRetry: "idle", "request", "sleep", "returned", "threw"
    requests,           \* history: number of requests issued by this call
    waits,              \* history: backoff delays slept by this call, in ms
    fetchResult,        \* what fetchWithRetry gave its caller
    mapInput,           \* the arguments of the last call of the function under check
    mapOutput,          \* what that call returned
    error,              \* useLeaderboardStream: error
    isConnected,        \* useLeaderboardStream: isConnected
    eventSource,        \* readyState of eventSourceRef.current, "none" for null
    reconnectTimer,     \* the timer of reconnectTimeoutRef is pending
    scheduledDelay,     \* the delay (ms) the pending reconnect timer was set with, 0 for none
    reconnectDelayRef,  \* reconnectDelayRef.current, in ms
    isMountedRef,       \* isMountedRef.current of useLeaderboardStream
    handled,            \* history: the callback the last step ran
    lastGood,           \* history: the data of the last update that was accepted
    lateCallbacks,      \* history: callbacks invoked after the cleanup
    polledAgents,       \* useExternalLeaderboard: agents
    polledStats,        \* useExternalLeaderboard: stats
    pollIsLoading,      \* useExternalLeaderboard: isLoading
    pollError,          \* useExternalLeaderboard: error
    lastETagRef,        \* useExternalLeaderboard: lastETagRef.current
    pollMountedRef,     \* useExternalLeaderboard: isMountedRef.current
    pollPc,             \* fetchLeaderboardInternal: "unmounted", "idle", "primary", "fallback"
    pollStep,           \* history: what the last step of the polling hook did
    poller,             \* timing: "none", or the poller that runs, "hook" or "route"
    intervalTimer,      \* timing: ms until the callback of setInterval, NotArmed before
    flights,            \* timing: the upstream fetches that have not ended yet
    clearTimers,        \* ms left on each pending setTimeout(() => setRankChanges([]), ...)
    shown,              \* history: who set the rankChanges on display, and how long ago
    localStorage,       \* the enrichment cache in localStorage: the list and its age at mount
    loadStep,           \* history: what the last step of the enrichment load did
    lastETag,           \* stream route: lastETag of one stream
    lastData,           \* stream route: lastData, the serialization sent last
    isActive,           \* stream route: isActive
    relayPc,            \* stream route: start() is "idle", "initial" (first fetch awaited), "polling"
    handler,            \* stream route: which of the two versions of GET in route.ts serves
    pollInterval,       \* stream route: pollInterval is set and not cleared
    keepAliveInterval,  \* stream route: keepAliveInterval is set and not cleared
    polls,              \* history: the calls of fetchLeaderboard started so far
    updatePoll,         \* history: the number of the call whose response was sent last as 'update'
    relayFlights,       \* stream route: the calls of fetchLeaderboard that await the upstream
    clientGone,         \* stream route: the client has disconnected
    sent,               \* history: the events enqueued on the stream
    relayStep,          \* history: what the last step of the route did
    lastSavedMonthRef,  \* useHistoricalLeaderboard: lastSavedMonthRef.current, a month or NoMonth
    isSavingRef,        \* useHistoricalLeaderboard: isSavingRef.current
    agentsLength,       \* useHistoricalLeaderboard: agents.length, also of agentsRef.current
    currentMonth,       \* the month of new Date()
    saveFlight,         \* the currentMonthKey of the call of saveMonthlySnapshot that is awaited, or NoMonth
    snapshots,          \* history: the months the snapshot store has saved
    saveStep            \* history: what the last step of useHistoricalLeaderboard did

reconVars == <<externalAgents, externalStats, isLoading, mappedAgents,
               rebsAgentsRef, rebsAgentsLoaded, loadedQueued, rebsFetch, retryCount, retryDelay,
               previousAgentsRef, agents, rankChanges, stats, pass>>
retryVars == <<script, attempt, fetchPc, requests, waits, fetchResult>>
mapVars == <<mapInput, mapOutput>>
streamVars == <<error, isConnected, eventSource, reconnectTimer, scheduledDelay,
                reconnectDelayRef,
                isMountedRef, handled, lastGood, lateCallbacks>>
pollVars == <<polledAgents, polledStats, pollIsLoading, pollError, lastETagRef,
              pollMountedRef, pollPc, pollStep>>
timeVars == <<poller, intervalTimer, flights>>
clearVars == <<clearTimers, shown>>
cacheVars == <<localStorage, loadStep>>
relayVars == <<lastETag, lastData, isActive, relayPc, handler, pollInterval,
               keepAliveInterval, polls, updatePoll, relayFlights, clientGone,
               sent, relayStep>>
historyVars == <<lastSavedMonthRef, isSavingRef, agentsLength, currentMonth, saveFlight,
                 snapshots, saveStep>>
vars == <<externalAgents, externalStats, isLoading, mappedAgents, rebsAgentsRef,
          rebsAgentsLoaded, loadedQueued, rebsFetch, retryCount, retryDelay,
          previousAgentsRef, agents, rankChanges, stats, pass,
          script, attempt, fetchPc, requests, waits, fetchResult,
          mapInput, mapOutput,
          error, isConnected, eventSource, reconnectTimer, scheduledDelay,
          reconnectDelayRef,
          isMountedRef, handled, lastGood, lateCallbacks,
          polledAgents, polledStats, pollIsLoading, pollError, lastETagRef,
          pollMountedRef, pollPc, pollStep,
          poller, intervalTimer, flights,
          clearTimers, shown, localStorage, loadStep,
          lastETag, lastData, isActive, relayPc, handler, pollInterval,
          keepAliveInterval, polls, updatePoll, relayFlights, clientGone,
          sent, relayStep,
          lastSavedMonthRef, isSavingRef, agentsLength, currentMonth, saveFlight,
          snapshots, saveStep>>
\* what the steps of one part of the program leave alone
notHook == <<retryVars, mapVars, streamVars, pollVars, timeVars, relayVars, historyVars>>
notClear == <<notHook, cacheVars>>
notCache == <<notHook, clearVars>>
notRecon == <<notHook, clearVars, cacheVars>>
notRetry == <<reconVars, mapVars, streamVars, pollVars, timeVars, clearVars, cacheVars,
              relayVars, historyVars>>
notMap == <<reconVars, retryVars, streamVars, pollVars, timeVars, clearVars, cacheVars,
            relayVars, historyVars>>
notStream == <<retryVars, mapVars, pollVars, timeVars, clearVars, cacheVars, relayVars,
               historyVars>>
notPoll == <<reconVars, mapVars, streamVars, timeVars, clearVars, cacheVars, relayVars,
             historyVars>>
notTime == <<reconVars, retryVars, mapVars, streamVars, pollVars, clearVars, cacheVars,
             relayVars, historyVars>>
notRelay == <<reconVars, retryVars, mapVars, streamVars, pollVars, timeVars, clearVars,
              cacheVars, historyVars>>
notHistory == <<reconVars, retryVars, mapVars, streamVars, pollVars, timeVars, clearVars,
                cacheVars, relayVars>>

(***************************************************************************)
(* Bounds of the model.                                                    *)
(***************************************************************************)
\* Live payloads are padded to MIN_VISIBLE_AGENTS - MaxShort .. + MaxOver.
MaxShort == 1
MaxOver == 1
\* Number of upstream answers scripted for one call of fetchWithRetry.
ScriptLen == 4
\* Number of callbacks that are invoked after the cleanup of the stream hook.
MaxLate == 2
\* Number of events followed on one stream of the route, and number of
\* its upstream fetches that are followed at a time.
MaxSent == 3
MaxRelayFlights == 2
\* Number of calls of fetchLeaderboard followed on one stream.
MaxPolls == 3
\* Number of timers that wait to clear rankChanges at one time.
MaxClearTimers == 2
\* simulateChanges is not called once an entry has this many points.
MaxXp == 1000
\* Number of calendar months useHistoricalLeaderboard is followed through.
MaxMonth == 3

(***************************************************************************)
(* Program constants.                                                      *)
(***************************************************************************)
MIN_VISIBLE_AGENTS == 10
REBS_CACHE_DURATION_MS == 86400000
REBS_FETCH_RETRIES == 3
REBS_FETCH_RETRY_DELAY_MS == 2000
RETRY_ATTEMPTS == 3
RETRY_BACKOFF_BASE_MS == 1000
MAX_RECONNECT_DELAY == 5000
\* useRef(500), and the value onopen and refetch reset the delay to
INITIAL_RECONNECT_DELAY == 500
RECONNECT_RESET_DELAY == 1000

(***************************************************************************)
(* JavaScript values.  An absent string (undefined or null) is the         *)
(* sentinel Undefined, distinct from the empty string; both are falsy.     *)
(* An identifier is a number or a string: strict equality (===) tells the  *)
(* number 7 from the string "7", a template literal prints both as "7".    *)
(***************************************************************************)
Undefined == "<undefined>"
\* null where an object is expected (stats, top_performer)
Null == [isNull |-> TRUE]
Falsy(s) == s = Undefined \/ s = ""
Truthy(s) == ~Falsy(s)
\* a || b || undefined
Or2(a, b) == IF Truthy(a) THEN a ELSE IF Truthy(b) THEN b ELSE Undefined
\* a ?? ''
Coalesce(s) == IF s = Undefined THEN "" ELSE s

IdNumber(n) == [type |-> "number", text |-> ToString(n)]
IdString(s) == [type |-> "string", text |-> s]
NoId == [type |-> "undefined", text |-> ""]
\* if (agent.id): undefined, 0 and '' are falsy
IdTruthy(id) == /\ id.type # "undefined"
                /\ id.text # ""
                /\ ~(id.type = "number" /\ id.text = "0")

(***************************************************************************)
(* Strings, character by character.                                        *)
(***************************************************************************)
UpperLetters == "ABCDEFGHIJKLMNOPQRSTUVWXYZ"
LowerLetters == "abcdefghijklmnopqrstuvwxyz"
Digits == "0123456789"
CharAt(s, i) == SubSeq(s, i, i)
IndexIn(alphabet, c) ==
    IF \E i \in 1..Len(alphabet) : CharAt(alphabet, i) = c
    THEN CHOOSE i \in 1..Len(alphabet) : CharAt(alphabet, i) = c
    ELSE 0
IsSpace(c) == c = " "
LowerChar(c) ==
    IF IndexIn(UpperLetters, c) > 0
    THEN CharAt(LowerLetters, IndexIn(UpperLetters, c))
    ELSE c

RECURSIVE ToLowerCaseAt(_, _)
ToLowerCaseAt(s, i) ==
    IF i > Len(s) THEN "" ELSE LowerChar(CharAt(s, i)) \o ToLowerCaseAt(s, i + 1)
\* String.prototype.toLowerCase
ToLowerCase(s) == ToLowerCaseAt(s, 1)

RECURSIVE TrimStart(_)
TrimStart(s) ==
    IF Len(s) > 0 /\ IsSpace(CharAt(s, 1)) THEN TrimStart(SubSeq(s, 2, Len(s))) ELSE s
RECURSIVE TrimEnd(_)
TrimEnd(s) ==
    IF Len(s) > 0 /\ IsSpace(CharAt(s, Len(s)))
    THEN TrimEnd(SubSeq(s, 1, Len(s) - 1))
    ELSE s
\* String.prototype.trim
Trim(s) == TrimEnd(TrimStart(s))

RECURSIVE ReplaceSpacesAt(_, _)
ReplaceSpacesAt(s, i) ==
    IF i > Len(s) THEN ""
    ELSE IF IsSpace(CharAt(s, i))
         THEN IF i > 1 /\ IsSpace(CharAt(s, i - 1))
              THEN ReplaceSpacesAt(s, i + 1)
              ELSE "-" \o ReplaceSpacesAt(s, i + 1)
         ELSE CharAt(s, i) \o ReplaceSpacesAt(s, i + 1)
\* s.replace(/\s+/g, '-'): every run of white space becomes one '-'
ReplaceSpaces(s) == ReplaceSpacesAt(s, 1)

\* String.prototype.startsWith
StartsWith(s, prefix) ==
    Len(prefix) <= Len(s) /\ SubSeq(s, 1, Len(prefix)) = prefix

(***************************************************************************)
(* String.prototype.localeCompare, as the root collation orders the        *)
(* characters used here: white space, then punctuation, then digits, then  *)
(* letters; letters differ first by letter, and only on a tie on the       *)
(* whole string by case, lower case first.                                 *)
(***************************************************************************)
PrimaryWeight(c) ==
    IF IsSpace(c) THEN 1
    ELSE IF IndexIn(Digits, c) > 0 THEN 10 + IndexIn(Digits, c)
    ELSE IF IndexIn(LowerLetters, LowerChar(c)) > 0
         THEN 30 + IndexIn(LowerLetters, LowerChar(c))
    ELSE 2
CaseWeight(c) == IF IndexIn(UpperLetters, c) > 0 THEN 1 ELSE 0

RECURSIVE ComparePrimary(_, _, _)
ComparePrimary(a, b, i) ==
    IF i > Len(a) /\ i > Len(b) THEN 0
    ELSE IF i > Len(a) THEN -1
    ELSE IF i > Len(b) THEN 1
    ELSE IF PrimaryWeight(CharAt(a, i)) < PrimaryWeight(CharAt(b, i)) THEN -1
    ELSE IF PrimaryWeight(CharAt(a, i)) > PrimaryWeight(CharAt(b, i)) THEN 1
    ELSE ComparePrimary(a, b, i + 1)
RECURSIVE CompareCase(_, _, _)
CompareCase(a, b, i) ==
    IF i > Len(a) \/ i > Len(b) THEN 0
    ELSE IF CaseWeight(CharAt(a, i)) < CaseWeight(CharAt(b, i)) THEN -1
    ELSE IF CaseWeight(CharAt(a, i)) > CaseWeight(CharAt(b, i)) THEN 1
    ELSE CompareCase(a, b, i + 1)
LocaleCompare(a, b) ==
    IF ComparePrimary(a, b, 1) # 0
    THEN ComparePrimary(a, b, 1)
    ELSE CompareCase(a, b, 1)

(***************************************************************************)
(* Generic sequence helpers: Array.prototype.filter, find and the stable   *)
(* Array.prototype.sort (an insertion sort, which is stable).              *)
(***************************************************************************)
RECURSIVE FirstIndex(_, _, _)
\* index of the first element of seq from position i on that satisfies Test
FirstIndex(seq, i, hits) ==
    IF i > Len(seq) THEN 0
    ELSE IF i \in hits THEN i
    ELSE FirstIndex(seq, i + 1, hits)

(***************************************************************************)
(* mapExternalAgentToAgent and what it calls.                              *)
(***************************************************************************)
\* findRebsAgent's three lookups, each Array.prototype.find over the store
ExactNameHits(rebsAgents, agentName) ==
    {i \in 1..Len(rebsAgents) :
        /\ rebsAgents[i].name # Undefined
        /\ Trim(ToLowerCase(rebsAgents[i].name)) = Trim(ToLowerCase(agentName))}
FirstLastHits(rebsAgents, firstName, lastName) ==
    {i \in 1..Len(rebsAgents) :
        /\ rebsAgents[i].first_name # Undefined
        /\ rebsAgents[i].last_name # Undefined
        /\ Trim(ToLowerCase(rebsAgents[i].first_name)) = Trim(ToLowerCase(firstName))
        /\ Trim(ToLowerCase(rebsAgents[i].last_name)) = Trim(ToLowerCase(lastName))}
FirstNameHits(rebsAgents, firstName) ==
    {i \in 1..Len(rebsAgents) :
        \/ /\ rebsAgents[i].first_name # Undefined
           /\ Trim(ToLowerCase(rebsAgents[i].first_name))
                = Trim(ToLowerCase(firstName))
        \/ /\ rebsAgents[i].name # Undefined
           /\ Trim(ToLowerCase(rebsAgents[i].name)) # ""
           /\ StartsWith(Trim(ToLowerCase(rebsAgents[i].name)),
                         Trim(ToLowerCase(firstName)))}
\* A variant of the lookup below that tries the first name before the rest.
findRebsAgentFirstNameFirst(rebsAgents, agentName, firstName, lastName) ==
    LET partial == IF Truthy(firstName)
                   THEN FirstIndex(rebsAgents, 1, FirstNameHits(rebsAgents, firstName))
                   ELSE 0
        Exact(found) ==
            IF found = 0
            THEN FirstIndex(rebsAgents, 1, ExactNameHits(rebsAgents, agentName))
            ELSE found
        Both(found) ==
            IF found = 0 /\ Truthy(firstName) /\ Truthy(lastName)
            THEN FirstIndex(rebsAgents, 1,
                            FirstLastHits(rebsAgents, firstName, lastName))
            ELSE found
    IN Both(Exact(partial))

\* the index in the store of the record findRebsAgent returns, 0 for null
findRebsAgent(rebsAgents, agentName, firstName, lastName) ==
    LET exact == FirstIndex(rebsAgents, 1, ExactNameHits(rebsAgents, agentName))
        \* if (!rebsAgent && firstName && lastName)
        Both(found) ==
            IF found = 0 /\ Truthy(firstName) /\ Truthy(lastName)
            THEN FirstIndex(rebsAgents, 1,
                            FirstLastHits(rebsAgents, firstName, lastName))
            ELSE found
        \* if (!rebsAgent && firstName)
        First(found) ==
            IF found = 0 /\ Truthy(firstName)
            THEN FirstIndex(rebsAgents, 1, FirstNameHits(rebsAgents, firstName))
            ELSE found
    IN First(Both(exact))

\* A variant of the mapping below that looks the participant up whether or
\* not the payload carries an avatar, and takes the fields of the record found.
mapExternalAgentPreferRebs(externalAgent, rebsAgents) ==
    LET Enriched(found) ==
            [id |-> externalAgent.id,
             name |-> externalAgent.name,
             rank |-> externalAgent.rank,
             email |-> IF found > 0 /\ Truthy(rebsAgents[found].email)
                       THEN rebsAgents[found].email
                       ELSE Or2(externalAgent.email, Undefined),
             phone |-> IF found > 0 /\ Truthy(rebsAgents[found].phone)
                       THEN rebsAgents[found].phone
                       ELSE Or2(externalAgent.phone, Undefined),
             avatar |-> IF found > 0
                        THEN Or2(rebsAgents[found].avatar,
                                 rebsAgents[found].profile_picture)
                        ELSE Or2(externalAgent.avatar, externalAgent.profile_picture),
             profile_picture |-> IF found > 0
                                 THEN Or2(rebsAgents[found].profile_picture,
                                          rebsAgents[found].avatar)
                                 ELSE Or2(externalAgent.profile_picture,
                                          externalAgent.avatar),
             closed_transactions |-> externalAgent.closed_transactions,
             total_value |-> externalAgent.total_value,
             total_commission |-> externalAgent.total_commission,
             xp |-> externalAgent.xp,
             level |-> externalAgent.level,
             active_listings |-> Or2(externalAgent.active_listings, Undefined),
             position |-> IF found > 0 /\ Truthy(rebsAgents[found].position)
                          THEN rebsAgents[found].position
                          ELSE Or2(externalAgent.position, Undefined),
             first_name |-> Or2(externalAgent.first_name, Undefined),
             last_name |-> Or2(externalAgent.last_name, Undefined),
             origin |-> "live"]
    IN Enriched(findRebsAgent(rebsAgents, externalAgent.name,
                              Or2(externalAgent.first_name, Undefined),
                              Or2(externalAgent.last_name, Undefined)))

mapExternalAgentToAgent(externalAgent, rebsAgents) ==
    LET avatar0 == Or2(externalAgent.avatar, externalAgent.profile_picture)
        picture0 == Or2(externalAgent.profile_picture, externalAgent.avatar)
        email0 == Or2(externalAgent.email, Undefined)
        phone0 == Or2(externalAgent.phone, Undefined)
        position0 == Or2(externalAgent.position, Undefined)
        \* the entry returned, found being the index of the record that
        \* findRebsAgent gave (0: no lookup was made, or it gave null)
        Enriched(found) ==
            [id |-> externalAgent.id,
             name |-> externalAgent.name,
             rank |-> externalAgent.rank,
             email |-> IF found > 0 /\ Falsy(email0) /\ Truthy(rebsAgents[found].email)
                       THEN rebsAgents[found].email ELSE email0,
             phone |-> IF found > 0 /\ Falsy(phone0) /\ Truthy(rebsAgents[found].phone)
                       THEN rebsAgents[found].phone ELSE phone0,
             avatar |-> IF found > 0
                        THEN Or2(rebsAgents[found].avatar,
                                 rebsAgents[found].profile_picture)
                        ELSE avatar0,
             profile_picture |-> IF found > 0
                                 THEN Or2(rebsAgents[found].profile_picture,
                                          rebsAgents[found].avatar)
                                 ELSE picture0,
             closed_transactions |-> externalAgent.closed_transactions,
             total_value |-> externalAgent.total_value,
             total_commission |-> externalAgent.total_commission,
             xp |-> externalAgent.xp,
             level |-> externalAgent.level,
             active_listings |-> Or2(externalAgent.active_listings, Undefined),
             position |-> IF /\ found > 0 /\ Falsy(position0)
                             /\ Truthy(rebsAgents[found].position)
                          THEN rebsAgents[found].position ELSE position0,
             first_name |-> Or2(externalAgent.first_name, Undefined),
             last_name |-> Or2(externalAgent.last_name, Undefined),
             origin |-> "live"]
    IN Enriched(IF Falsy(avatar0)
                THEN findRebsAgent(rebsAgents, externalAgent.name,
                                   Or2(externalAgent.first_name, Undefined),
                                   Or2(externalAgent.last_name, Undefined))
                ELSE 0)

\* useMemo mappedAgents
MapAgents(external, rebsAgents) ==
    IF Len(external) = 0 THEN <<>>
    ELSE [i \in 1..Len(external) |-> mapExternalAgentToAgent(external[i], rebsAgents)]

(***************************************************************************)
(* Placeholder entries.  The field origin is a history field, not a field  *)
(* of the program's Agent: it records which code fabricated the entry.     *)
(* A rank of 0 stands for rank: undefined (both are falsy, and the pass    *)
(* overwrites it before anything reads it).                                *)
(***************************************************************************)
getRebsFullName(agent) ==
    IF agent.name # Undefined /\ Trim(agent.name) # ""
    THEN Trim(agent.name)
    ELSE Trim(Coalesce(agent.first_name) \o " " \o Coalesce(agent.last_name))

RebsId(agent, fallbackIndex) ==
    LET baseName == IF getRebsFullName(agent) # ""
                    THEN getRebsFullName(agent)
                    ELSE "Agent necunoscut " \o ToString(fallbackIndex + 1)
        normalizedName == ReplaceSpaces(ToLowerCase(baseName))
    IN IF IdTruthy(agent.id)
       THEN IdString("rebs-" \o agent.id.text)
       ELSE IdString("rebs-" \o (IF normalizedName # ""
                                 THEN normalizedName
                                 ELSE ToString(fallbackIndex)))

createFallbackAgentFromRebs(agent, fallbackIndex) ==
    [id |-> RebsId(agent, fallbackIndex),
     name |-> IF getRebsFullName(agent) # ""
              THEN getRebsFullName(agent)
              ELSE "Agent necunoscut " \o ToString(fallbackIndex + 1),
     rank |-> 0,
     email |-> Or2(agent.email, Undefined),
     phone |-> Or2(agent.phone, Undefined),
     avatar |-> Or2(agent.avatar, agent.profile_picture),
     profile_picture |-> Or2(agent.profile_picture, agent.avatar),
     closed_transactions |-> 0,
     total_value |-> 0,
     total_commission |-> 0,
     xp |-> 0,
     level |-> 1,
     active_listings |-> Undefined,
     position |-> Or2(agent.position, Undefined),
     first_name |-> Or2(agent.first_name, Undefined),
     last_name |-> Or2(agent.last_name, Undefined),
     origin |-> "rebs"]

\* A variant of the placeholder below that starts with the experience points
\* of a new agent.
createPlaceholderAgentWithXp(index) ==
    [id |-> IdString("placeholder-" \o ToString(index)),
     name |-> "Agent necunoscut " \o ToString(index),
     rank |-> 0, email |-> Undefined, phone |-> Undefined,
     avatar |-> Undefined, profile_picture |-> Undefined,
     closed_transactions |-> 0, total_value |-> 0, total_commission |-> 0,
     xp |-> 50, level |-> 1, active_listings |-> Undefined,
     position |-> Undefined, first_name |-> Undefined, last_name |-> Undefined,
     origin |-> "generic"]

createPlaceholderAgent(index) ==
    [id |-> IdString("placeholder-" \o ToString(index)),
     name |-> "Agent necunoscut " \o ToString(index),
     rank |-> 0,
     email |-> Undefined,
     phone |-> Undefined,
     avatar |-> Undefined,
     profile_picture |-> Undefined,
     closed_transactions |-> 0,
     total_value |-> 0,
     total_commission |-> 0,
     xp |-> 0,
     level |-> 1,
     active_listings |-> Undefined,
     position |-> Undefined,
     first_name |-> Undefined,
     last_name |-> Undefined,
     origin |-> "generic"]

(***************************************************************************)
(* The reconciliation pass: the effect of useAgentLeaderboard.             *)
(***************************************************************************)
\* the comparator of actualAgentsSorted (a live rank is a number, never null)
CompareAgents(a, b) ==
    IF a.rank = b.rank THEN LocaleCompare(a.name, b.name) ELSE a.rank - b.rank
\* the comparator of the enrichment candidates
CompareRebs(a, b) == LocaleCompare(getRebsFullName(a), getRebsFullName(b))

RECURSIVE InsertAgent(_, _, _)
InsertAgent(sorted, x, i) ==
    IF i = 0 \/ CompareAgents(sorted[i], x) <= 0
    THEN SubSeq(sorted, 1, i) \o <<x>> \o SubSeq(sorted, i + 1, Len(sorted))
    ELSE InsertAgent(sorted, x, i - 1)
RECURSIVE SortAgents(_)
SortAgents(seq) ==
    IF Len(seq) = 0 THEN <<>>
    ELSE LET front == SortAgents(SubSeq(seq, 1, Len(seq) - 1))
         IN InsertAgent(front, seq[Len(seq)], Len(front))

RECURSIVE InsertRebs(_, _, _)
InsertRebs(sorted, x, i) ==
    IF i = 0 \/ CompareRebs(sorted[i], x) <= 0
    THEN SubSeq(sorted, 1, i) \o <<x>> \o SubSeq(sorted, i + 1, Len(sorted))
    ELSE InsertRebs(sorted, x, i - 1)
RECURSIVE SortRebs(_)
SortRebs(seq) ==
    IF Len(seq) = 0 THEN <<>>
    ELSE LET front == SortRebs(SubSeq(seq, 1, Len(seq) - 1))
         IN InsertRebs(front, seq[Len(seq)], Len(front))

\* A variant of existingNameSet that keeps only the name of the first
\* participant: with it the backfill depends on the order of the live list.
ExistingNameSetOfLeader(actualAgentsSorted) ==
    IF Len(actualAgentsSorted) = 0 THEN {}
    ELSE {Trim(ToLowerCase(actualAgentsSorted[1].name))} \ {""}

\* existingNameSet
ExistingNameSet(actualAgentsSorted) ==
    {Trim(ToLowerCase(actualAgentsSorted[i].name)) : i \in 1..Len(actualAgentsSorted)}
        \ {""}

\* the filter of the enrichment candidates
IsCandidate(rebsAgent, existingNameSet) ==
    LET name == Trim(ToLowerCase(getRebsFullName(rebsAgent)))
    IN name # "" /\ name \notin existingNameSet

RECURSIVE FilterCandidates(_, _)
FilterCandidates(rebsAgents, existingNameSet) ==
    IF Len(rebsAgents) = 0 THEN <<>>
    ELSE (IF IsCandidate(Head(rebsAgents), existingNameSet)
          THEN <<Head(rebsAgents)>> ELSE <<>>)
         \o FilterCandidates(Tail(rebsAgents), existingNameSet)

\* rebsFallback: filter, sort by name, map to placeholder entries
RebsFallback(rebsAgents, existingNameSet) ==
    LET sorted == SortRebs(FilterCandidates(rebsAgents, existingNameSet))
    IN [i \in 1..Len(sorted) |-> createFallbackAgentFromRebs(sorted[i], i - 1)]

\* A variant of the loop below without its break: every candidate is pushed.
PushUntilAll(fallbackAgents, rebsFallback, needed) == fallbackAgents \o rebsFallback

RECURSIVE PushUntil(_, _, _)
\* for (const fallback of rebsFallback) { push; if (length >= needed) break }
PushUntil(fallbackAgents, rebsFallback, needed) ==
    IF Len(rebsFallback) = 0 THEN fallbackAgents
    ELSE LET pushed == Append(fallbackAgents, Head(rebsFallback))
         IN IF Len(pushed) >= needed THEN pushed
            ELSE PushUntil(pushed, Tail(rebsFallback), needed)

RECURSIVE PushPlaceholders(_, _, _, _)
\* while (fallbackAgents.length < needed) { push placeholder; placeholderIndex += 1 }
PushPlaceholders(fallbackAgents, needed, liveCount, placeholderIndex) ==
    IF Len(fallbackAgents) < needed
    THEN PushPlaceholders(
             Append(fallbackAgents, createPlaceholderAgent(liveCount + placeholderIndex)),
             needed, liveCount, placeholderIndex + 1)
    ELSE fallbackAgents

shouldUseAllRebsAgents(actualAgentsSorted, rebsAgents, loaded) ==
    /\ Len(actualAgentsSorted) = 0
    /\ (loaded \/ Len(rebsAgents) > 0)
    /\ Len(rebsAgents) > 0

\* A variant of the guard below that also fills a list of exactly
\* MIN_VISIBLE_AGENTS participants.
ShouldFillInclusive(actualAgentsSorted, rebsAgents, loaded) ==
    /\ Len(actualAgentsSorted) <= MIN_VISIBLE_AGENTS
    /\ (loaded \/ Len(rebsAgents) > 0)

\* A variant of the guard below that does not wait for the enrichment store.
ShouldFillUnguarded(actualAgentsSorted, rebsAgents, loaded) ==
    Len(actualAgentsSorted) < MIN_VISIBLE_AGENTS

\* the guard of the else-if branch that fills up to MIN_VISIBLE_AGENTS
ShouldFill(actualAgentsSorted, rebsAgents, loaded) ==
    /\ Len(actualAgentsSorted) < MIN_VISIBLE_AGENTS
    /\ (loaded \/ Len(rebsAgents) > 0)

FallbackAgents(actualAgentsSorted, rebsAgents, loaded) ==
    LET existingNameSet == ExistingNameSet(actualAgentsSorted)
        needed == MIN_VISIBLE_AGENTS - Len(actualAgentsSorted)
        fromRebs == IF Len(rebsAgents) > 0
                    THEN PushUntil(<<>>, RebsFallback(rebsAgents, existingNameSet), needed)
                    ELSE <<>>
    IN IF shouldUseAllRebsAgents(actualAgentsSorted, rebsAgents, loaded)
       THEN RebsFallback(rebsAgents, existingNameSet)
       ELSE IF ShouldFill(actualAgentsSorted, rebsAgents, loaded)
            THEN PushPlaceholders(fromRebs, needed, Len(actualAgentsSorted), 1)
            ELSE <<>>

\* A variant of the rank assignment below that keeps the rank each entry came
\* with: the feed's rank of a participant, no rank of a placeholder.
AssignRanksFromFeed(list) == list

\* combinedAgents: the final contiguous ranks
AssignRanks(list) == [i \in 1..Len(list) |-> [list[i] EXCEPT !.rank = i]]

\* A variant of the list below that puts the backfill before the live
\* entries, which it leaves in the order of the payload.
CombinedAgentsBackfillFirst(mapped, rebsAgents, loaded) ==
    AssignRanks(FallbackAgents(SortAgents(mapped), rebsAgents, loaded) \o mapped)

CombinedAgents(mapped, rebsAgents, loaded) ==
    LET actualAgentsSorted == SortAgents(mapped)
    IN AssignRanks(actualAgentsSorted
                   \o FallbackAgents(actualAgentsSorted, rebsAgents, loaded))

\* oldAgents.find((a) => a.id === newAgent.id)
FindById(oldAgents, id) ==
    FirstIndex(oldAgents, 1, {i \in 1..Len(oldAgents) : oldAgents[i].id = id})

\* A variant of the comparison below that treats an entry absent from the old
\* list as entering from below the old list.
ChangeOfEntering(oldAgents, newAgent) ==
    LET found == FindById(oldAgents, newAgent.id)
        oldRank == IF found > 0 THEN oldAgents[found].rank ELSE Len(oldAgents) + 1
    IN IF oldRank # 0 /\ newAgent.rank # 0 /\ oldRank # newAgent.rank
       THEN <<[agentId |-> newAgent.id, oldRank |-> oldRank,
               newRank |-> newAgent.rank,
               type |-> IF oldRank > newAgent.rank THEN "up" ELSE "down"]>>
       ELSE <<>>

\* the events one new entry contributes
ChangeOf(oldAgents, newAgent) ==
    LET found == FindById(oldAgents, newAgent.id)
        oldAgent == oldAgents[found]
    IN IF found > 0 /\ oldAgent.rank # 0 /\ newAgent.rank # 0
       THEN IF oldAgent.rank > newAgent.rank
            THEN <<[agentId |-> newAgent.id, oldRank |-> oldAgent.rank,
                    newRank |-> newAgent.rank, type |-> "up"]>>
            ELSE IF oldAgent.rank < newAgent.rank
            THEN <<[agentId |-> newAgent.id, oldRank |-> oldAgent.rank,
                    newRank |-> newAgent.rank, type |-> "down"]>>
            ELSE <<>>
       ELSE <<>>

RECURSIVE detectRankChangesFrom(_, _, _)
detectRankChangesFrom(oldAgents, newAgents, i) ==
    IF i > Len(newAgents) THEN <<>>
    ELSE ChangeOf(oldAgents, newAgents[i])
         \o detectRankChangesFrom(oldAgents, newAgents, i + 1)
detectRankChanges(oldAgents, newAgents) ==
    detectRankChangesFrom(oldAgents, newAgents, 1)

\* the changes a pass computes: none while previousAgentsRef is empty
PassChanges(previous, combined) ==
    IF Len(previous) > 0 THEN detectRankChanges(previous, combined) ELSE <<>>

RECURSIVE SumCommissionFrom(_, _)
\* agents.reduce((sum, agent) => sum + (agent.total_commission || 0), 0)
SumCommissionFrom(list, i) ==
    IF i > Len(list) THEN 0
    ELSE list[i].total_commission + SumCommissionFrom(list, i + 1)

(***************************************************************************)
(* The inputs drawn: live payloads and enrichment lists.                   *)
(***************************************************************************)
ExternalAgent(id, name, rank, firstName, lastName, avatar) ==
    [id |-> id, name |-> name, rank |-> rank,
     email |-> Undefined, phone |-> Undefined,
     avatar |-> avatar, profile_picture |-> Undefined,
     closed_transactions |-> 2, total_value |-> 100, total_commission |-> 10,
     xp |-> 50, level |-> 1, active_listings |-> Undefined,
     position |-> Undefined, first_name |-> firstName, last_name |-> lastName]

Ana(rank) == ExternalAgent(IdNumber(1), "Ana Pop", rank, "Ana", "Pop", Undefined)
Bob(rank) == ExternalAgent(IdNumber(2), "Bob Ilie", rank, "Bob", "Ilie", "bob.png")
\* a second entry with Bob's identifier
Twin(rank) == ExternalAgent(IdNumber(2), "Cora Dinu", rank, Undefined, Undefined, "c.png")
\* a string identifier of the shape the backfill fabricates
Spoof(rank) == ExternalAgent(IdString("rebs-7"), "Dan Radu", rank, Undefined, Undefined, "d.png")
\* the participants that pad a payload to a given length
\* (the feed ranks them in tied pairs: 1, 1, 2, 2, ...)
Filler(i) == ExternalAgent(IdNumber(100 + i), "zed " \o ToString(i), (i + 1) \div 2,
                           Undefined, Undefined, "z.png")

Heads == {<<>>, <<Ana(1), Bob(2)>>, <<Bob(1), Ana(2)>>,
          <<Bob(1), Twin(2)>>, <<Spoof(3)>>}
\* the heads that are also padded to about MIN_VISIBLE_AGENTS participants
PaddedHeads == {<<>>}
PaddedCounts ==
    (MIN_VISIBLE_AGENTS - MaxShort) .. (MIN_VISIBLE_AGENTS + MaxOver)

Payload(head, n) ==
    [i \in 1..n |-> IF i <= Len(head) THEN head[i] ELSE Filler(i)]

Payloads == {Payload(head, Len(head)) : head \in Heads}
            \cup {Payload(head, n) : head \in PaddedHeads, n \in PaddedCounts}

\* The summary the feed sends with a payload.  A payload whose first rank is
\* not 1 lists a part of the agency: its summary covers the Covered agents of
\* the agency and names the agency's first as top performer.  Otherwise the
\* summary is the one of the agents listed.
Covered == 3
ListsPart(payload) == Len(payload) > 0 /\ payload[1].rank # 1
FeedStats(payload) ==
    LET count == IF ListsPart(payload) THEN Covered ELSE Len(payload)
    IN [total_agents |-> count,
        total_transactions |-> 2 * count,
        total_sales_value |-> 100 * count,
        total_commission |-> 10 * count,
        top_performer |-> IF ListsPart(payload) THEN Ana(1)
                          ELSE IF Len(payload) > 0 THEN payload[1] ELSE Null]

RebsRecord(id, name, firstName, lastName, avatar) ==
    [id |-> id, name |-> name, first_name |-> firstName, last_name |-> lastName,
     avatar |-> avatar, profile_picture |-> Undefined,
     email |-> Undefined, phone |-> Undefined, position |-> Undefined]

\* enrichment records: one that matches Ana by name (upper case, padded), one
\* with the same identifier as a string and its name in two parts, one with
\* no identifier and a blank name
RebsAna == RebsRecord(IdNumber(7), "ANA POP ", "Ana", "Pop", "ana.png")
RebsIon == RebsRecord(IdString("7"), Undefined, "Ion", "Luca", Undefined)
RebsBlank == RebsRecord(NoId, "  ", Undefined, Undefined, Undefined)

\* the lists the cache and /api/rebs-agents deliver; the last holds a record twice
RebsLists == {<<>>, <<RebsAna>>, <<RebsAna, RebsIon>>, <<RebsBlank>>,
              <<RebsIon, RebsIon>>}

\* every result of the useMemo and of the pass over the inputs drawn,
\* computed once
MappedTable == [p \in Payloads, r \in RebsLists |-> MapAgents(p, r)]
MappedLists == {MappedTable[p, r] : p \in Payloads, r \in RebsLists} \cup {<<>>}
CombinedTable ==
    [m \in MappedLists, r \in RebsLists, l \in BOOLEAN |-> CombinedAgents(m, r, l)]

\* every top performer the feed names, mapped over every enrichment list,
\* computed once
FeedSummaries == {FeedStats(p) : p \in Payloads}
TopPerformerTable ==
    [e \in FeedSummaries, r \in RebsLists |->
        IF e.top_performer # Null
        THEN mapExternalAgentToAgent(e.top_performer, r)
        ELSE Null]

mapExternalStatsToStats(extStats, list, rebsAgents) ==
    [total_agents |-> extStats.total_agents,
     total_transactions |-> extStats.total_transactions,
     total_sales_value |-> extStats.total_sales_value,
     total_commission |-> SumCommissionFrom(list, 1),
     top_performer |-> IF extStats.top_performer # Null
                       THEN TopPerformerTable[extStats, rebsAgents]
                       ELSE IF Len(list) > 0 THEN list[1] ELSE Null]

\* the summary a pass sets: if (externalStats) ... else if (!isLoading && ...)
PassStats(extStats, loading, combined, rebsAgents, oldStats) ==
    IF extStats # Null THEN mapExternalStatsToStats(extStats, combined, rebsAgents)
    ELSE IF ~loading /\ Len(combined) = 0 THEN Null
    ELSE oldStats

(***************************************************************************)
(* State and actions of useAgentLeaderboard.                               *)
(***************************************************************************)
\* the identifiers of a display list, and the keys the pass compares names by
IdsOf(list) == {list[i].id : i \in 1..Len(list)}
LiveNames == UNION {{p[i].name : i \in 1..Len(p)} : p \in Payloads}
NameKeyTable == [n \in LiveNames |-> Trim(ToLowerCase(n))]
NameKeys(list) == {NameKeyTable[list[i].name] : i \in 1..Len(list)} \ {""}

\* pass is a history variable: whether the last step ran the pass, the events
\* that pass computed, whether an identifier entered and whether one left the
\* display list in it, and whether the pass before it ran on the same live names and on
\* the same enrichment store
NoPass == [ran |-> FALSE, changes |-> <<>>, entered |-> FALSE, left |-> FALSE,
           sameNames |-> FALSE, sameStore |-> FALSE]

ReconInit ==
    /\ externalAgents = <<>>
    /\ externalStats = Null
    /\ isLoading = TRUE
    /\ mappedAgents = <<>>
    /\ rebsAgentsRef = <<>>
    /\ rebsAgentsLoaded = FALSE
    /\ loadedQueued = FALSE
    /\ rebsFetch = "unmounted"
    /\ retryCount = 0
    /\ retryDelay = 0
    /\ previousAgentsRef = <<>>
    /\ agents = <<>>
    /\ rankChanges = <<>>
    /\ stats = Null
    /\ pass = NoPass

\* the effect of lines 400-492, run with the given inputs
RunPass(mapped, rebsAgents, loaded, extStats, loading) ==
    \* setAgents(combinedAgents); previousAgentsRef.current = combinedAgents
    /\ agents' = CombinedTable[mapped, rebsAgents, loaded]
    /\ previousAgentsRef' = agents'
    /\ pass' = [ran |-> TRUE,
                changes |-> PassChanges(previousAgentsRef, agents'),
                entered |-> /\ Len(previousAgentsRef) > 0
                            /\ IdsOf(agents') \ IdsOf(previousAgentsRef) # {},
                left |-> /\ Len(previousAgentsRef) > 0
                         /\ IdsOf(previousAgentsRef) \ IdsOf(agents') # {},
                sameNames |-> /\ pass.ran
                              /\ Len(mapped) = Len(mappedAgents)
                              /\ NameKeys(mapped) = NameKeys(mappedAgents),
                sameStore |-> /\ pass.ran
                              /\ rebsAgents = rebsAgentsRef
                              /\ loaded = rebsAgentsLoaded]
    \* if (changes.length > 0) setRankChanges(changes)
    /\ rankChanges' = IF Len(pass'.changes) > 0 THEN pass'.changes ELSE rankChanges
    \* if (externalStats) setStats(...) else if (...) setStats(null)
    /\ stats' = PassStats(extStats, loading, agents', rebsAgents, stats)

\* mount: the enrichment effect reads the cache, then the first pass runs
Mount(cache, fresh) ==
    /\ rebsFetch = "unmounted"
    /\ rebsAgentsRef' = cache
    /\ loadedQueued' = (Len(cache) > 0)
    /\ rebsFetch' = IF Len(cache) = 0 \/ ~fresh THEN "pending" ELSE "done"
    /\ RunPass(mappedAgents, cache, rebsAgentsLoaded, externalStats, isLoading)
    /\ UNCHANGED <<externalAgents, externalStats, isLoading, mappedAgents, rebsAgentsLoaded, retryCount, retryDelay>>

\* the render that commits setRebsAgentsLoaded(true): the effect runs again
RenderLoaded ==
    /\ loadedQueued
    /\ loadedQueued' = FALSE
    /\ rebsAgentsLoaded' = TRUE
    /\ RunPass(mappedAgents, rebsAgentsRef, TRUE, externalStats, isLoading)
    /\ UNCHANGED <<externalAgents, externalStats, isLoading, mappedAgents, rebsAgentsRef,
                   rebsFetch, retryCount, retryDelay>>

\* fetchRebsAgents: a non-empty list arrived
RebsFetchSuccess(data) ==
    /\ rebsFetch = "pending" /\ ~loadedQueued
    /\ Len(data) > 0
    /\ rebsAgentsRef' = data
    /\ loadedQueued' = ~rebsAgentsLoaded
    /\ rebsFetch' = "done"
    /\ UNCHANGED <<externalAgents, externalStats, isLoading, mappedAgents,
                   rebsAgentsLoaded, retryCount, retryDelay, previousAgentsRef, agents,
                   rankChanges, stats>>
    /\ pass' = [pass EXCEPT !.ran = FALSE]

\* fetchRebsAgents: an empty list arrived
RebsFetchEmpty ==
    /\ rebsFetch = "pending" /\ ~loadedQueued
    /\ loadedQueued' = (Len(rebsAgentsRef) = 0 /\ ~rebsAgentsLoaded)
    /\ rebsFetch' = "done"
    /\ UNCHANGED <<externalAgents, externalStats, isLoading, mappedAgents,
                   rebsAgentsRef, rebsAgentsLoaded, retryCount, retryDelay, previousAgentsRef,
                   agents, rankChanges, stats>>
    /\ pass' = [pass EXCEPT !.ran = FALSE]

\* A variant of the failure below that doubles the delay with every retry
\* and never gives up.
RebsFetchFailBackingOff ==
    /\ rebsFetch = "pending" /\ ~loadedQueued
    /\ retryCount' = IF retryCount < REBS_FETCH_RETRIES THEN retryCount + 1 ELSE retryCount
    /\ retryDelay' = IF retryDelay = 0 THEN REBS_FETCH_RETRY_DELAY_MS
                     ELSE IF retryDelay < 8000 THEN 2 * retryDelay ELSE retryDelay
    /\ UNCHANGED <<rebsFetch, loadedQueued>>
    /\ UNCHANGED <<externalAgents, externalStats, isLoading, mappedAgents,
                   rebsAgentsRef, rebsAgentsLoaded, previousAgentsRef, agents,
                   rankChanges, stats>>
    /\ pass' = [pass EXCEPT !.ran = FALSE]

\* fetchRebsAgents: the attempt failed
RebsFetchFail ==
    /\ rebsFetch = "pending" /\ ~loadedQueued
    /\ IF retryCount < REBS_FETCH_RETRIES - 1
       THEN /\ retryCount' = retryCount + 1
            /\ retryDelay' = REBS_FETCH_RETRY_DELAY_MS
            /\ UNCHANGED <<rebsFetch, loadedQueued>>
       ELSE /\ rebsFetch' = "done"
            /\ loadedQueued' = ~rebsAgentsLoaded
            /\ UNCHANGED <<retryCount, retryDelay>>
    /\ UNCHANGED <<externalAgents, externalStats, isLoading, mappedAgents,
                   rebsAgentsRef, rebsAgentsLoaded, previousAgentsRef, agents,
                   rankChanges, stats>>
    /\ pass' = [pass EXCEPT !.ran = FALSE]

\* an 'update' event of the stream that passed validation: new live payload
OnUpdate(payload) ==
    /\ rebsFetch # "unmounted" /\ ~loadedQueued
    /\ externalAgents' = payload
    /\ externalStats' = FeedStats(payload)
    /\ isLoading' = FALSE
    /\ mappedAgents' = MappedTable[payload, rebsAgentsRef]
    /\ RunPass(mappedAgents', rebsAgentsRef, rebsAgentsLoaded, externalStats', FALSE)
    /\ UNCHANGED <<rebsAgentsRef, rebsAgentsLoaded, loadedQueued, rebsFetch, retryCount, retryDelay>>

\* refetch(): isLoading becomes true, which is a dependency of the effect
Refetch ==
    /\ rebsFetch # "unmounted" /\ ~loadedQueued
    /\ ~isLoading
    /\ isLoading' = TRUE
    /\ RunPass(mappedAgents, rebsAgentsRef, rebsAgentsLoaded, externalStats, TRUE)
    /\ UNCHANGED <<externalAgents, externalStats, mappedAgents, rebsAgentsRef, rebsAgentsLoaded,
                   loadedQueued, rebsFetch, retryCount, retryDelay>>

(***************************************************************************)
(* fetchWithRetry of the polling client.  One request ends in a response   *)
(* (ok, or a status outside 200-299: an HTTP error or 304) or throws (a    *)
(* network error, or the abort of fetchWithTimeout).                       *)
(***************************************************************************)
Responses == {"ok", "http_error", "not_modified"}
Throws == {"network_error", "timeout"}
Outcomes == Responses \cup Throws

RECURSIVE Pow2(_)
Pow2(n) == IF n = 0 THEN 1 ELSE 2 * Pow2(n - 1)
\* Math.pow(2, attempt) * RETRY_BACKOFF_BASE_MS
BackoffDelay(n) == Pow2(n) * RETRY_BACKOFF_BASE_MS

\* response.ok
ResponseOk(outcome) == outcome = "ok"
\* A variant of the test below that gives up one attempt early.
LastAttemptEarly(n, retries) == n = retries - 2

\* the catch block gives up on the last attempt
LastAttempt(n, retries) == n = retries - 1

NoResult == [kind |-> "none", outcome |-> "none", request |-> 0]

RetryIdle ==
    /\ script = <<>>
    /\ attempt = 0
    /\ fetchPc = "idle"
    /\ requests = 0
    /\ waits = <<>>
    /\ fetchResult = NoResult

\* a call fetchWithRetry(url, options) with the default retries
CallFetchWithRetry(answers) ==
    /\ fetchPc \in {"idle", "returned", "threw"}
    /\ script' = answers
    /\ attempt' = 0
    /\ fetchPc' = "request"
    /\ requests' = 0
    /\ waits' = <<>>
    /\ fetchResult' = NoResult

\* fetchWithTimeout settles: the body of one loop iteration up to the sleep
Settle ==
    /\ fetchPc = "request"
    /\ requests < Len(script)
    /\ requests' = requests + 1
    /\ LET outcome == script[requests + 1]
           response == [kind |-> "response", outcome |-> outcome,
                        request |-> requests + 1]
           caught == [kind |-> "error", outcome |-> outcome, request |-> requests + 1]
       IN IF outcome \in Responses
          THEN IF ResponseOk(outcome)
               THEN /\ fetchPc' = "returned" /\ fetchResult' = response
                    /\ UNCHANGED waits
               ELSE IF attempt < RETRY_ATTEMPTS - 1
                    \* throw new Error(`HTTP ${status}`), caught below
                    THEN IF LastAttempt(attempt, RETRY_ATTEMPTS)
                         THEN /\ fetchPc' = "threw"
                              /\ fetchResult' = [caught EXCEPT !.outcome = "http_error"]
                              /\ UNCHANGED waits
                         ELSE /\ fetchPc' = "sleep"
                              /\ waits' = Append(waits, BackoffDelay(attempt))
                              /\ UNCHANGED fetchResult
                    ELSE /\ fetchPc' = "returned" /\ fetchResult' = response
                         /\ UNCHANGED waits
          ELSE IF LastAttempt(attempt, RETRY_ATTEMPTS)
               THEN /\ fetchPc' = "threw" /\ fetchResult' = caught
                    /\ UNCHANGED waits
               ELSE /\ fetchPc' = "sleep"
                    /\ waits' = Append(waits, BackoffDelay(attempt))
                    /\ UNCHANGED fetchResult
    /\ UNCHANGED <<script, attempt>>

\* the backoff timer fires: attempt++ and the loop condition
WakeUp ==
    /\ fetchPc = "sleep"
    /\ attempt' = attempt + 1
    /\ IF attempt + 1 < RETRY_ATTEMPTS
       THEN fetchPc' = "request" /\ UNCHANGED fetchResult
       ELSE /\ fetchPc' = "threw"
            /\ fetchResult' = [kind |-> "error", outcome |-> "max_retries",
                               request |-> requests]
    /\ UNCHANGED <<script, requests, waits>>

Scripts == [1..ScriptLen -> Outcomes]

(***************************************************************************)
(* mapExternalAgentToAgent called on its own, over live participants whose *)
(* optional fields are absent, empty or present, and enrichment stores     *)
(* whose record for the participant has every field, some, or none.        *)
(***************************************************************************)
\* the values an optional string of the live payload takes
LiveChoices(present) == {Undefined, "", present}

LiveAgents ==
    {[ExternalAgent(IdNumber(1), "Ana Pop", 1, "Ana", "Pop", avatar)
          EXCEPT !.profile_picture = picture, !.email = email,
                 !.phone = phone, !.position = position] :
        avatar \in LiveChoices("live.png"),
        picture \in LiveChoices("live-p.png"),
        email \in LiveChoices("ana@live"),
        phone \in LiveChoices("0711"),
        position \in LiveChoices("Agent")}

\* a record that carries every field, found by its name
RebsFull ==
    [RebsRecord(IdNumber(7), "ANA POP ", "Ana", "Pop", "rebs.png")
         EXCEPT !.profile_picture = "rebs-p.png", !.email = "ana@rebs",
                !.phone = "0722", !.position = "Broker"]
\* a record that carries some fields, found by its first name only
RebsPartial ==
    [RebsRecord(IdNumber(8), Undefined, "ana", "Popa", Undefined)
         EXCEPT !.profile_picture = "rebs-p.png", !.email = "",
                !.position = "Broker"]
EnrichmentStores == {<<>>, <<RebsFull>>, <<RebsPartial>>, <<RebsIon, RebsFull>>}

NotMapped == [called |-> FALSE]
MapIdle ==
    /\ mapInput = NotMapped
    /\ mapOutput = NotMapped

\* one call mapExternalAgentToAgent(externalAgent, findRebsAgent)
CallMapExternalAgent(externalAgent, rebsAgents) ==
    /\ mapInput' = [called |-> TRUE, agent |-> externalAgent, store |-> rebsAgents]
    /\ mapOutput' = [called |-> TRUE,
                     agent |-> mapExternalAgentToAgent(externalAgent, rebsAgents)]

\* The pass as a function of its inputs.  The live payloads: none; in and
\* out of the order of their ranks; with a tie of ranks and the names out of
\* order; with a shared identifier; short of, at and over MIN_VISIBLE_AGENTS.
\* a participant whom the feed names family name first, without a picture
Reversed(rank) == ExternalAgent(IdNumber(3), "Pop Ana", rank, "Ana", "Pop", Undefined)

CombinePayloads ==
    {<<>>, <<Ana(1)>>, <<Ana(1), Bob(2)>>, <<Bob(2), Ana(1)>>, <<Bob(1), Ana(1)>>,
     <<Spoof(3), Bob(2), Ana(1)>>, <<Bob(1), Twin(2)>>,
     <<Reversed(1)>>, <<Bob(1), Reversed(2)>>}
    \cup {Payload(<<>>, n) : n \in PaddedCounts}

\* a record whose name sorts after the others, spelt in lower case
RebsZoe == RebsRecord(IdNumber(12), "zoe vlad", "Zoe", "Vlad", "zoe.png")

\* the stores: those of the pass above, and stores of two and three records
\* out of the order of their names
CombineStores ==
    RebsLists \cup {<<RebsIon, RebsAna>>, <<RebsZoe, RebsIon, RebsAna>>,
                    <<RebsZoe, RebsBlank, RebsIon>>}

CombineInputs ==
    {[called |-> FALSE, payload |-> payload,
      mapped |-> MapAgents(payload, rebsAgents),
      store |-> rebsAgents, loaded |-> loaded] :
        payload \in CombinePayloads, rebsAgents \in CombineStores,
        loaded \in BOOLEAN}

CombineIdle ==
    /\ mapInput \in CombineInputs
    /\ mapOutput = NotMapped

\* the list the pass builds from mappedAgents, rebsAgentsRef.current and
\* rebsAgentsLoaded
CallCombinedAgents ==
    /\ ~mapOutput.called
    /\ mapOutput' = [called |-> TRUE,
                     list |-> CombinedAgents(mapInput.mapped, mapInput.store,
                                             mapInput.loaded)]
    /\ UNCHANGED mapInput

\* the arguments findRebsAgent is called with here: names as the payload
\* spells them, in another case, padded, in part, and of a stranger
FindNames == {"Ana Pop", " ana pop", "Ana", "Dan Radu"}
FindFirstNames == {Undefined, "", "Ana", "ANA ", "An"}
FindLastNames == {Undefined, "Pop", "pop "}

\* records that match by full name, by first and last name only, by a name
\* that begins with the first name, by first name only, and not at all
FindRecords ==
    {RebsRecord(IdNumber(7), "ANA POP ", "Ana", "Pop", "ana.png"),
     RebsRecord(IdNumber(8), Undefined, " ana", "POP", Undefined),
     RebsRecord(IdNumber(9), "Anamaria Ene", "Maria", "Ene", Undefined),
     RebsRecord(IdNumber(10), Undefined, "Ana", "Luca", Undefined),
     RebsIon, RebsBlank}

\* the stores: empty, and every one of one or two records in either order
FindStores ==
    {<<>>} \cup {<<r>> : r \in FindRecords}
           \cup {<<r1, r2>> : r1 \in FindRecords, r2 \in FindRecords}

\* the arguments of one call of findRebsAgent and the store it reads
FindInputs ==
    {[called |-> FALSE, store |-> rebsAgents, name |-> agentName,
      firstName |-> firstName, lastName |-> lastName] :
        rebsAgents \in FindStores, agentName \in FindNames,
        firstName \in FindFirstNames, lastName \in FindLastNames}

FindIdle ==
    /\ mapInput \in FindInputs
    /\ mapOutput = NotMapped

\* the call findRebsAgent(agentName, firstName, lastName)
CallFindRebsAgent ==
    /\ ~mapOutput.called
    /\ mapOutput' = [called |-> TRUE,
                     found |-> findRebsAgent(mapInput.store, mapInput.name,
                                             mapInput.firstName, mapInput.lastName)]
    /\ UNCHANGED mapInput

(***************************************************************************)
(* useLeaderboardStream: the EventSource of /api/leaderboard-stream and    *)
(* its listeners, together with the pass that a change of the payload      *)
(* held triggers in useAgentLeaderboard.  The enrichment fetch stays       *)
(* pending throughout.                                                     *)
(***************************************************************************)
NoError == "<null>"

\* the live payloads the stream delivers here
StreamPayloads == {<<>>, <<Ana(1), Bob(2)>>, <<Bob(1), Ana(2)>>}
StreamData(payload) == [agents |-> payload, stats |-> FeedStats(payload)]

\* An 'update' message: whether event.data is JSON, whether it passes
\* externalLeaderboardResponseSchema, and its fields success, error, data.
Message(parses, valid, success, errorText, data) ==
    [parses |-> parses, valid |-> valid, success |-> success,
     error |-> errorText, data |-> data]
StreamMessages ==
    {Message(TRUE, TRUE, TRUE, Undefined, StreamData(p)) : p \in StreamPayloads}
    \cup {Message(TRUE, TRUE, TRUE, Undefined, Null),
          Message(TRUE, TRUE, FALSE, "upstream down", Null),
          Message(TRUE, TRUE, FALSE, Undefined, StreamData(<<Bob(1), Ana(2)>>)),
          Message(TRUE, FALSE, TRUE, Undefined, StreamData(<<Bob(1), Ana(2)>>)),
          Message(FALSE, FALSE, FALSE, Undefined, Null)}

\* what an 'error' event carries: nothing (the connection failed) or the
\* JSON the route sent with event: error
ErrorEvents == {Undefined, "API returned 500: Internal Server Error"}

StreamIdle ==
    /\ error = NoError
    /\ isConnected = FALSE
    /\ eventSource = "none"
    /\ reconnectTimer = FALSE
    /\ scheduledDelay = 0
    /\ reconnectDelayRef = INITIAL_RECONNECT_DELAY
    /\ isMountedRef = TRUE
    /\ handled = [callback |-> "none", message |-> Null]
    /\ lastGood = [agents |-> <<>>, stats |-> Null]
    /\ lateCallbacks = 0

\* a step of the stream hook that changes nothing the pass depends on
NoPassRun ==
    /\ pass' = [pass EXCEPT !.ran = FALSE]
    /\ UNCHANGED <<externalAgents, externalStats, isLoading, mappedAgents,
                   rebsAgentsRef, rebsAgentsLoaded, loadedQueued, rebsFetch,
                   retryCount, retryDelay, previousAgentsRef, agents, rankChanges, stats>>

\* connect(): close the connection held, clear the pending reconnect, and
\* open a new EventSource
Connect ==
    /\ eventSource' = "connecting"
    /\ reconnectTimer' = FALSE
    /\ scheduledDelay' = 0

\* eventSource.onopen
HandleOpen ==
    IF isMountedRef
    THEN /\ isConnected' = TRUE
         /\ error' = NoError
         /\ reconnectDelayRef' = RECONNECT_RESET_DELAY
    ELSE UNCHANGED <<isConnected, error, reconnectDelayRef>>

\* A variant of the test below that does not look at the success field.
AcceptedUnchecked(message) ==
    message.parses /\ message.valid /\ message.data # Null

\* the checks of the 'update' listener that a message passes to be applied
Accepted(message) ==
    message.parses /\ message.valid /\ message.success /\ message.data # Null

\* the error the 'update' listener sets for a message it does not apply
RejectionError(message, oldError) ==
    IF ~message.parses THEN "Failed to parse update data"
    ELSE IF ~message.valid THEN oldError
    ELSE IF ~message.success THEN Or2(message.error, "API request failed")
    ELSE "No data in API response"

\* A variant of the listener below that runs without looking at isMountedRef.
HandleUpdateUnguarded(message) ==
    IF Accepted(message)
    THEN OnUpdate(message.data.agents) /\ error' = NoError
    ELSE NoPassRun /\ error' = RejectionError(message, error)

\* the 'update' listener
HandleUpdate(message) ==
    IF ~isMountedRef THEN NoPassRun /\ UNCHANGED error
    ELSE IF Accepted(message)
    THEN OnUpdate(message.data.agents) /\ error' = NoError
    ELSE NoPassRun /\ error' = RejectionError(message, error)

Min(a, b) == IF a <= b THEN a ELSE b
\* A variant of the backoff below without the cap.
NextReconnectDelayUncapped(delay) == delay * 2

\* Math.min(reconnectDelayRef.current * 2, MAX_RECONNECT_DELAY)
NextReconnectDelay(delay) == Min(delay * 2, MAX_RECONNECT_DELAY)

\* A variant of the listener below that drops the payload held when the
\* connection fails.
HandleErrorClearing(errorData) ==
    /\ eventSource' = "none"
    /\ isConnected' = FALSE
    /\ error' = Or2(errorData, "Connection error")
    /\ reconnectDelayRef' = NextReconnectDelay(reconnectDelayRef)
    /\ reconnectTimer' = TRUE
    /\ scheduledDelay' = reconnectDelayRef'
    /\ OnUpdate(<<>>)

\* the 'error' listener
HandleError(errorData) ==
    IF ~isMountedRef
    THEN /\ UNCHANGED <<isConnected, error, eventSource, reconnectDelayRef,
                        reconnectTimer, scheduledDelay>>
         /\ NoPassRun
    ELSE /\ isConnected' = FALSE
         /\ error' = Or2(errorData, "Connection error")
         \* eventSource.close(); eventSourceRef.current = null
         /\ eventSource' = "none"
         /\ reconnectDelayRef' = NextReconnectDelay(reconnectDelayRef)
         /\ reconnectTimer' = TRUE
         \* setTimeout(..., reconnectDelayRef.current), read after the doubling
         /\ scheduledDelay' = reconnectDelayRef'
         /\ NoPassRun

\* A variant of the listener below that takes a ping for a lost connection.
HandlePingDisconnecting ==
    IF isMountedRef THEN isConnected' = FALSE ELSE UNCHANGED isConnected

\* the 'ping' listener
HandlePing ==
    IF isMountedRef THEN isConnected' = TRUE ELSE UNCHANGED isConnected

\* the callback of the reconnect timer
HandleReconnectTimer ==
    IF isMountedRef THEN Connect ELSE UNCHANGED <<eventSource, reconnectTimer, scheduledDelay>>

\* mount of the component: the effects of useLeaderboardStream and of
\* useAgentLeaderboard run; the enrichment cache is empty
StreamMount ==
    /\ Mount(<<>>, FALSE)
    /\ isMountedRef' = TRUE
    /\ Connect
    /\ handled' = [callback |-> "mount", message |-> Null]
    /\ UNCHANGED <<error, isConnected, reconnectDelayRef, lastGood, lateCallbacks>>

\* the connection is established: onopen runs
StreamOpen ==
    /\ eventSource = "connecting"
    /\ eventSource' = "open"
    /\ HandleOpen
    /\ NoPassRun
    /\ handled' = [callback |-> "open", message |-> Null]
    /\ UNCHANGED <<reconnectTimer, scheduledDelay, isMountedRef, lastGood, lateCallbacks>>

\* an 'update' event arrives on the open connection
StreamUpdate(message) ==
    /\ eventSource = "open"
    /\ HandleUpdate(message)
    /\ handled' = [callback |-> "update", message |-> message]
    /\ lastGood' = IF /\ isMountedRef /\ message.parses /\ message.valid
                      /\ message.success /\ message.data # Null
                   THEN message.data ELSE lastGood
    /\ UNCHANGED <<isConnected, eventSource, reconnectTimer, scheduledDelay, reconnectDelayRef,
                   isMountedRef, lateCallbacks>>

\* the connection fails, or the route sends an 'error' event
StreamError(errorData) ==
    /\ eventSource \in {"connecting", "open"}
    /\ errorData # Undefined => eventSource = "open"
    /\ HandleError(errorData)
    /\ handled' = [callback |-> "error", message |-> Null]
    /\ UNCHANGED <<isMountedRef, lastGood, lateCallbacks>>

\* a keepalive 'ping' event arrives
StreamPing ==
    /\ eventSource = "open"
    /\ HandlePing
    /\ NoPassRun
    /\ handled' = [callback |-> "ping", message |-> Null]
    /\ UNCHANGED <<error, eventSource, reconnectTimer, scheduledDelay, reconnectDelayRef,
                   isMountedRef, lastGood, lateCallbacks>>

\* the reconnect timer fires
StreamReconnect ==
    /\ reconnectTimer
    /\ HandleReconnectTimer
    /\ NoPassRun
    /\ handled' = [callback |-> "timer", message |-> Null]
    /\ UNCHANGED <<error, isConnected, reconnectDelayRef, isMountedRef, lastGood,
                   lateCallbacks>>

\* refetch() of useLeaderboardStream, called while mounted
StreamRefetch ==
    /\ rebsFetch # "unmounted" /\ isMountedRef
    /\ error' = NoError
    /\ reconnectDelayRef' = RECONNECT_RESET_DELAY
    /\ Connect
    \* setIsLoading(true): the pass runs again if isLoading changes
    /\ IF isLoading THEN NoPassRun ELSE Refetch
    /\ handled' = [callback |-> "refetch", message |-> Null]
    /\ UNCHANGED <<isConnected, isMountedRef, lastGood, lateCallbacks>>

\* the cleanup of the mount effect
StreamCleanup ==
    /\ rebsFetch # "unmounted" /\ isMountedRef
    /\ isMountedRef' = FALSE
    /\ eventSource' = "none"
    /\ reconnectTimer' = FALSE
    /\ scheduledDelay' = 0
    /\ NoPassRun
    /\ handled' = [callback |-> "cleanup", message |-> Null]
    /\ UNCHANGED <<error, isConnected, reconnectDelayRef, lastGood, lateCallbacks>>

\* a callback that is invoked although the cleanup has run
LateCallback(callback, message, errorData) ==
    /\ rebsFetch # "unmounted" /\ ~isMountedRef
    /\ lateCallbacks < MaxLate
    /\ lateCallbacks' = lateCallbacks + 1
    /\ handled' = [callback |-> "late", message |-> Null]
    /\ CASE callback = "open" ->
              HandleOpen /\ NoPassRun /\ UNCHANGED <<eventSource, reconnectTimer, scheduledDelay>>
         [] callback = "update" ->
              /\ HandleUpdate(message)
              /\ UNCHANGED <<isConnected, eventSource, reconnectTimer, scheduledDelay,
                             reconnectDelayRef>>
         [] callback = "error" -> HandleError(errorData)
         [] callback = "ping" ->
              /\ HandlePing /\ NoPassRun
              /\ UNCHANGED <<error, eventSource, reconnectTimer, scheduledDelay, reconnectDelayRef>>
         [] callback = "timer" ->
              /\ HandleReconnectTimer /\ NoPassRun
              /\ UNCHANGED <<error, isConnected, reconnectDelayRef>>
    /\ UNCHANGED <<isMountedRef, lastGood>>

Callbacks == {"open", "update", "error", "ping", "timer"}

(***************************************************************************)
(* useExternalLeaderboard: the polling hook.  One fetchLeaderboardInternal *)
(* runs at a time here: a tick of the interval or a refetch that falls     *)
(* into a running fetch is not drawn.  The calls of fetchWithRetry are the *)
(* actions CallFetchWithRetry, Settle and WakeUp above.                    *)
(***************************************************************************)
NoETag == "<null>"
ETags == {NoETag, "v1", "v2"}

\* what the upstream answers to the three requests that one call of
\* fetchWithRetry can make: every kind of answer each time, answers that
\* recover after one or two failures, and a failure after a recovery
AnswerScripts ==
    {<<"ok", "ok", "ok">>,
     <<"http_error", "http_error", "http_error">>,
     <<"network_error", "network_error", "network_error">>,
     <<"timeout", "timeout", "timeout">>,
     <<"not_modified", "not_modified", "not_modified">>,
     <<"http_error", "ok", "ok">>,
     <<"network_error", "timeout", "ok">>,
     <<"timeout", "http_error", "not_modified">>,
     <<"network_error", "network_error", "http_error">>}

\* the upstream answers 304 only to a request that carries If-None-Match
PollScripts(etag) ==
    IF etag = NoETag
    THEN {answers \in AnswerScripts : \A i \in 1..RETRY_ATTEMPTS : answers[i] # "not_modified"}
    ELSE AnswerScripts

\* the bodies a response carries: the messages of the stream
PollBodies == StreamMessages

PollIdle ==
    /\ polledAgents = <<>>
    /\ polledStats = Null
    /\ pollIsLoading = TRUE
    /\ pollError = NoError
    /\ lastETagRef = NoETag
    /\ pollMountedRef = TRUE
    /\ pollPc = "unmounted"
    /\ pollStep = "none"

\* fetchLeaderboardInternal(useFallback) up to its await of fetchWithRetry
StartFetch(answers, useFallback) ==
    /\ CallFetchWithRetry(answers)
    /\ pollPc' = IF useFallback THEN "fallback" ELSE "primary"

\* the polling effect: isMountedRef, the initial fetch, setInterval
PollMount(answers) ==
    /\ pollPc = "unmounted"
    /\ pollMountedRef' = TRUE
    /\ StartFetch(answers, FALSE)
    /\ pollStep' = "mount"
    /\ UNCHANGED <<polledAgents, polledStats, pollIsLoading, pollError, lastETagRef>>

\* the callback of setInterval
PollTick(answers) ==
    /\ pollPc = "idle" /\ pollMountedRef
    /\ StartFetch(answers, FALSE)
    /\ pollStep' = "tick"
    /\ UNCHANGED <<polledAgents, polledStats, pollIsLoading, pollError, lastETagRef,
                   pollMountedRef>>

\* refetch() of useExternalLeaderboard
PollRefetch(answers) ==
    /\ pollPc = "idle" /\ pollMountedRef
    /\ pollIsLoading' = TRUE
    /\ pollError' = NoError
    /\ lastETagRef' = NoETag
    /\ StartFetch(answers, FALSE)
    /\ pollStep' = "refetch"
    /\ UNCHANGED <<polledAgents, polledStats, pollMountedRef>>

\* a request of the running fetchWithRetry settles
PollSettle ==
    /\ pollPc \in {"primary", "fallback"}
    /\ Settle
    /\ pollStep' = "settle"
    /\ UNCHANGED <<polledAgents, polledStats, pollIsLoading, pollError, lastETagRef,
                   pollMountedRef, pollPc>>

\* a backoff sleep of the running fetchWithRetry ends
PollWakeUp ==
    /\ pollPc \in {"primary", "fallback"}
    /\ WakeUp
    /\ pollStep' = "wake"
    /\ UNCHANGED <<polledAgents, polledStats, pollIsLoading, pollError, lastETagRef,
                   pollMountedRef, pollPc>>

\* A variant of the test below that never recognises a 304.
NotModifiedIgnored(result) == FALSE

\* response.status === 304
NotModified(result) == result.kind = "response" /\ result.outcome = "not_modified"

\* the error that the try block of fetchLeaderboardInternal ends with, for the
\* result of fetchWithRetry and the body of its response; NoError for none
\* (a 304 carries no body, so reading it as JSON fails)
FetchFailure(result, body) ==
    IF result.kind = "error" THEN
        (IF result.outcome = "network_error"
         THEN "Network error: Unable to connect to leaderboard API. Check your connection or API URL."
         ELSE "The operation was aborted")
    ELSE IF result.outcome = "not_modified" THEN "Unexpected end of JSON input"
    ELSE IF ~body.parses THEN "Unexpected token in JSON"
    ELSE IF ~body.valid THEN "Invalid API response"
    ELSE IF ~body.success THEN Or2(body.error, "API request failed")
    ELSE IF body.data = Null THEN "No data in API response"
    ELSE NoError

\* the catch block: the direct URL is tried once after the proxy has failed,
\* then the error is set
Catch(message, answers) ==
    IF pollPc = "primary"
    THEN /\ StartFetch(answers, TRUE)
         /\ pollStep' = "fallback"
         /\ UNCHANGED <<polledAgents, polledStats, pollIsLoading, pollError>>
    ELSE /\ pollPc' = "idle"
         /\ pollStep' = "failed"
         /\ IF pollMountedRef
            THEN pollError' = message /\ pollIsLoading' = FALSE
            ELSE UNCHANGED <<pollError, pollIsLoading>>
         /\ UNCHANGED <<polledAgents, polledStats, retryVars>>

\* fetchLeaderboardInternal from the point where fetchWithRetry has returned
\* or thrown: body and etag are those of the response returned, answers are
\* what the upstream will answer if the direct URL is tried next
PollDeliver(body, etag, answers) ==
    /\ pollPc \in {"primary", "fallback"}
    /\ fetchPc \in {"returned", "threw"}
    /\ IF NotModified(fetchResult)
       THEN /\ pollPc' = "idle"
            /\ pollStep' = "not_modified"
            /\ UNCHANGED <<polledAgents, polledStats, pollIsLoading, pollError,
                           lastETagRef, retryVars>>
       ELSE /\ lastETagRef' = IF fetchResult.kind = "response" /\ etag # NoETag
                              THEN etag ELSE lastETagRef
            /\ IF FetchFailure(fetchResult, body) # NoError
               THEN Catch(FetchFailure(fetchResult, body), answers)
               ELSE /\ pollPc' = "idle"
                    /\ pollStep' = "applied"
                    /\ IF pollMountedRef
                       THEN /\ polledAgents' = body.data.agents
                            /\ polledStats' = body.data.stats
                            /\ pollError' = NoError
                            /\ pollIsLoading' = FALSE
                       ELSE UNCHANGED <<polledAgents, polledStats, pollError,
                                        pollIsLoading>>
                    /\ UNCHANGED retryVars
    /\ UNCHANGED pollMountedRef

\* the cleanup of the polling effect: isMountedRef, clearInterval
PollCleanup ==
    /\ pollPc # "unmounted" /\ pollMountedRef
    /\ pollMountedRef' = FALSE
    /\ pollStep' = "cleanup"
    /\ UNCHANGED <<polledAgents, polledStats, pollIsLoading, pollError, lastETagRef,
                   pollPc, retryVars>>

(***************************************************************************)
(* The two pollers in time: the polling effect of useExternalLeaderboard   *)
(* with fetchWithTimeout and fetchWithRetry ("hook"), and fetchLeaderboard *)
(* of the SSE route with its setInterval ("route").  Time passes in steps  *)
(* of TimeStep; a timer fires when its delay has passed, a request is      *)
(* answered at any moment up to its timeout.                               *)
(***************************************************************************)
POLLING_INTERVAL == 5000
FETCH_TIMEOUT_MS == 10000
SSE_POLLING_INTERVAL == 1000
SSE_FETCH_TIMEOUT_MS == 8000

\* every delay of the two pollers is a multiple of the backoff base
TimeStep == RETRY_BACKOFF_BASE_MS

\* fetches of one poller that are followed at a time; a tick that would
\* start one more is dropped
MaxFlights == 2

Pollers == {"hook", "route"}
NotArmed == -1

Interval(p) == IF p = "hook" THEN POLLING_INTERVAL ELSE SSE_POLLING_INTERVAL
Timeout(p) == IF p = "hook" THEN FETCH_TIMEOUT_MS ELSE SSE_FETCH_TIMEOUT_MS

\* a fetch at its first request: the hook asks the proxy URL first, the route
\* asks the upstream directly
NewFlight(p) ==
    [url |-> IF p = "hook" THEN "proxy" ELSE "direct",
     attempt |-> 0, pc |-> "request", t |-> 0]

RemoveAt(seq, i) == SubSeq(seq, 1, i - 1) \o SubSeq(seq, i + 1, Len(seq))

TimeIdle ==
    /\ poller = "none"
    /\ intervalTimer = NotArmed
    /\ flights = <<>>

\* the effect of the hook starts the first fetch and arms the interval at
\* once; start() of the route awaits the first fetch before setInterval
TimeMount(p) ==
    /\ poller = "none"
    /\ poller' = p
    /\ flights' = <<NewFlight(p)>>
    /\ intervalTimer' = IF p = "hook" THEN POLLING_INTERVAL ELSE NotArmed

\* the callback of setInterval: a fetch starts whether or not one is running
IntervalFire ==
    /\ poller # "none"
    /\ intervalTimer = 0
    /\ intervalTimer' = Interval(poller)
    /\ flights' = IF Len(flights) < MaxFlights
                  THEN Append(flights, NewFlight(poller))
                  ELSE flights
    /\ UNCHANGED poller

\* the fetch at position i ends; the route arms its interval when its first
\* fetch has ended
EndFlight(i) ==
    /\ flights' = RemoveAt(flights, i)
    /\ intervalTimer' = IF intervalTimer = NotArmed
                        THEN Interval(poller) ELSE intervalTimer

\* the catch of fetchLeaderboardInternal: the hook tries the direct URL once
\* after the proxy, then gives up; the route has one URL
FailFlight(i) ==
    IF poller = "hook" /\ flights[i].url = "proxy"
    THEN /\ flights' = [flights EXCEPT ![i] =
                           [url |-> "direct", attempt |-> 0, pc |-> "request", t |-> 0]]
         /\ UNCHANGED intervalTimer
    ELSE EndFlight(i)

\* a request of the hook has failed in fetchWithRetry: a sleep before the
\* next attempt, or the end of the call after the last one; the route does
\* not retry
RetryFlight(i) ==
    IF poller = "hook" /\ flights[i].attempt < RETRY_ATTEMPTS - 1
    THEN /\ flights' = [flights EXCEPT ![i].pc = "sleep", ![i].t = 0]
         /\ UNCHANGED intervalTimer
    ELSE FailFlight(i)

\* the request of the fetch at position i is answered: "ok" with a body that
\* is accepted, "bad_body" with a 2xx status and a body that is refused,
\* "fail" with a thrown fetch or a status outside 2xx
Respond(i, outcome) ==
    /\ i \in 1..Len(flights)
    /\ flights[i].pc = "request"
    /\ CASE outcome = "ok" -> EndFlight(i)
         [] outcome = "bad_body" -> FailFlight(i)
         [] outcome = "fail" -> RetryFlight(i)
    /\ UNCHANGED poller

\* the timeout of the request of the fetch at position i fires:
\* controller.abort() makes fetch throw an AbortError
Abort(i) ==
    /\ i \in 1..Len(flights)
    /\ flights[i].pc = "request"
    /\ flights[i].t = Timeout(poller)
    /\ IF poller = "hook" THEN RetryFlight(i) ELSE EndFlight(i)
    /\ UNCHANGED poller

\* the backoff sleep of the fetch at position i ends: the next attempt
SleepEnd(i) ==
    /\ i \in 1..Len(flights)
    /\ flights[i].pc = "sleep"
    /\ flights[i].t = BackoffDelay(flights[i].attempt)
    /\ flights' = [flights EXCEPT ![i].pc = "request", ![i].t = 0,
                                  ![i].attempt = flights[i].attempt + 1]
    /\ UNCHANGED <<poller, intervalTimer>>

\* a timer whose delay has passed fires before time moves on
Due(flight) ==
    IF flight.pc = "request"
    THEN flight.t = Timeout(poller)
    ELSE flight.t = BackoffDelay(flight.attempt)

\* TimeStep ms pass
Advance ==
    /\ poller # "none"
    /\ intervalTimer # 0
    /\ \A i \in 1..Len(flights) : ~Due(flights[i])
    /\ flights' = [i \in 1..Len(flights) |->
                     [flights[i] EXCEPT !.t = flights[i].t + TimeStep]]
    /\ intervalTimer' = IF intervalTimer = NotArmed
                        THEN NotArmed ELSE intervalTimer - TimeStep
    /\ UNCHANGED poller

\* no rank change is on display and no timer waits to clear one
NotShown == [by |-> "none", age |-> 0]
ClearIdle ==
    /\ clearTimers = <<>>
    /\ shown = NotShown

\* useHistoricalLeaderboard before its first render with agents: nothing
\* saved, nothing in flight, the first month of the calendar
NoMonth == 0
\* what a step of the hook did, and which callback took it
SaveStep(did, by) == [did |-> did, by |-> by]
HistoryIdle ==
    /\ lastSavedMonthRef = NoMonth
    /\ isSavingRef = FALSE
    /\ agentsLength = 0
    /\ currentMonth = 1
    /\ saveFlight = NoMonth
    /\ snapshots = {}
    /\ saveStep = SaveStep("none", "none")

\* localStorage without the two keys of the enrichment cache
NoCache == [data |-> <<>>, age |-> -1]
CacheIdle ==
    /\ localStorage = NoCache
    /\ loadStep = "none"

\* the state of the stream route before a client connects
NoData == "<null>"
RelayStep(did, body, status, poll) ==
    [did |-> did, body |-> body, status |-> status, poll |-> poll]
NoRelayStep == RelayStep("none", "", 0, 0)
RelayIdle ==
    /\ lastETag = NoETag
    /\ lastData = NoData
    /\ isActive = TRUE
    /\ relayPc = "idle"
    /\ handler = "none"
    /\ pollInterval = FALSE
    /\ keepAliveInterval = FALSE
    /\ polls = 0
    /\ updatePoll = 0
    /\ relayFlights = <<>>
    /\ clientGone = FALSE
    /\ sent = <<>>
    /\ relayStep = NoRelayStep

Init ==
    /\ ReconInit /\ RetryIdle /\ MapIdle /\ StreamIdle /\ PollIdle /\ TimeIdle
    /\ ClearIdle /\ CacheIdle /\ RelayIdle /\ HistoryIdle

Next ==
    \/ \E cache \in RebsLists, fresh \in BOOLEAN :
           Mount(cache, fresh) /\ UNCHANGED notRecon
    \/ RenderLoaded /\ UNCHANGED notRecon
    \/ \E data \in RebsLists : RebsFetchSuccess(data) /\ UNCHANGED notRecon
    \/ RebsFetchEmpty /\ UNCHANGED notRecon
    \/ RebsFetchFail /\ UNCHANGED notRecon
    \/ \E payload \in Payloads : OnUpdate(payload) /\ UNCHANGED notRecon
    \/ Refetch /\ UNCHANGED notRecon

Spec == Init /\ [][Next]_vars

NextRetry ==
    \/ \E answers \in Scripts : CallFetchWithRetry(answers) /\ UNCHANGED <<notRetry, pollVars>>
    \/ Settle /\ UNCHANGED <<notRetry, pollVars>>
    \/ WakeUp /\ UNCHANGED <<notRetry, pollVars>>

SpecRetry == Init /\ [][NextRetry]_vars

NextMap ==
    \E externalAgent \in LiveAgents, rebsAgents \in EnrichmentStores :
        CallMapExternalAgent(externalAgent, rebsAgents) /\ UNCHANGED notMap

SpecMap == Init /\ [][NextMap]_vars

InitFind ==
    /\ ReconInit /\ RetryIdle /\ FindIdle /\ StreamIdle /\ PollIdle /\ TimeIdle
    /\ ClearIdle /\ CacheIdle /\ RelayIdle /\ HistoryIdle

NextFind == CallFindRebsAgent /\ UNCHANGED notMap

SpecFind == InitFind /\ [][NextFind]_vars

InitCombine ==
    /\ ReconInit /\ RetryIdle /\ CombineIdle /\ StreamIdle /\ PollIdle /\ TimeIdle
    /\ ClearIdle /\ CacheIdle /\ RelayIdle /\ HistoryIdle

NextCombine == CallCombinedAgents /\ UNCHANGED notMap

SpecCombine == InitCombine /\ [][NextCombine]_vars

NextStream ==
    \/ StreamMount /\ UNCHANGED notStream
    \/ StreamOpen /\ UNCHANGED notStream
    \/ \E message \in StreamMessages : StreamUpdate(message) /\ UNCHANGED notStream
    \/ \E errorData \in ErrorEvents : StreamError(errorData) /\ UNCHANGED notStream
    \/ StreamPing /\ UNCHANGED notStream
    \/ StreamReconnect /\ UNCHANGED notStream
    \/ StreamRefetch /\ UNCHANGED notStream
    \/ StreamCleanup /\ UNCHANGED notStream
    \/ \E callback \in Callbacks, message \in StreamMessages,
          errorData \in ErrorEvents :
           LateCallback(callback, message, errorData) /\ UNCHANGED notStream

SpecStream == Init /\ [][NextStream]_vars

NextPoll ==
    \/ \E answers \in PollScripts(lastETagRef) :
           PollMount(answers) /\ UNCHANGED notPoll
    \/ \E answers \in PollScripts(lastETagRef) :
           PollTick(answers) /\ UNCHANGED notPoll
    \/ \E answers \in PollScripts(NoETag) :
           PollRefetch(answers) /\ UNCHANGED notPoll
    \/ PollSettle /\ UNCHANGED notPoll
    \/ PollWakeUp /\ UNCHANGED notPoll
    \/ \E body \in PollBodies, etag \in ETags :
           \E answers \in PollScripts(IF fetchResult.kind = "response" /\ etag # NoETag
                                       THEN etag ELSE lastETagRef) :
               PollDeliver(body, etag, answers) /\ UNCHANGED notPoll
    \/ PollCleanup /\ UNCHANGED notPoll

SpecPoll == Init /\ [][NextPoll]_vars

NextTime ==
    \/ \E p \in Pollers : TimeMount(p) /\ UNCHANGED notTime
    \/ IntervalFire /\ UNCHANGED notTime
    \/ \E i \in 1..MaxFlights, outcome \in {"ok", "bad_body", "fail"} :
           Respond(i, outcome) /\ UNCHANGED notTime
    \/ \E i \in 1..MaxFlights : Abort(i) /\ UNCHANGED notTime
    \/ \E i \in 1..MaxFlights : SleepEnd(i) /\ UNCHANGED notTime
    \/ Advance /\ UNCHANGED notTime

SpecTime == Init /\ [][NextTime]_vars

(***************************************************************************)
(* Observations the properties are stated in.  A pass has just run in a    *)
(* state where pass.ran holds; its inputs are then mappedAgents,           *)
(* rebsAgentsRef and rebsAgentsLoaded, and its output is agents.  In a     *)
(* step that runs a pass, previousAgentsRef is the display list before it  *)
(* and agents' the display list after it.                                  *)
(***************************************************************************)
Max(a, b) == IF a >= b THEN a ELSE b

\* the positions of the fabricated entries of a display list
Placeholders(list) == {i \in 1..Len(list) : list[i].origin # "live"}

RECURSIVE PlaceholderIdsFrom(_, _)
PlaceholderIdsFrom(list, i) ==
    IF i > Len(list) THEN <<>>
    ELSE (IF list[i].origin # "live" THEN <<list[i].id>> ELSE <<>>)
         \o PlaceholderIdsFrom(list, i + 1)
\* the identifiers of the fabricated entries, in list order
PlaceholderIds(list) == PlaceholderIdsFrom(list, 1)

\* the number of enrichment records that carry a name, each record counted
NamedRecords(rebsAgents) ==
    Cardinality({i \in 1..Len(rebsAgents) : getRebsFullName(rebsAgents[i]) # ""})

\* the ranks at which a display list shows an identifier
RanksOf(list, id) == {list[i].rank : i \in {j \in 1..Len(list) : list[j].id = id}}

DistinctIds(list) ==
    \A i, j \in 1..Len(list) : list[i].id = list[j].id => i = j

\* events is exactly one event for each identifier the two lists show at
\* different ranks, carrying its old and its new rank and typed by direction
DiffExact(old, new, events) ==
    LET changed == {id \in IdsOf(old) \cap IdsOf(new) :
                        RanksOf(old, id) # RanksOf(new, id)}
    IN /\ \A id \in changed :
              \E k \in 1..Len(events) :
                  /\ events[k].agentId = id
                  /\ \A m \in 1..Len(events) : events[m].agentId = id => m = k
                  /\ events[k].oldRank \in RanksOf(old, id)
                  /\ events[k].newRank \in RanksOf(new, id)
                  /\ events[k].type = IF events[k].newRank < events[k].oldRank
                                      THEN "up" ELSE "down"
       /\ \A k \in 1..Len(events) : events[k].agentId \in changed

(***************************************************************************)
(* Properties of the reconciliation pass, checked under Spec.              *)
(***************************************************************************)
\* C1: after every reconciliation pass the ranks of the display list are
\* exactly 1..N in list order, N being the number of entries.
C1_RanksContiguous ==
    pass.ran => \A i \in 1..Len(agents) : agents[i].rank = i

\* A pass whose feed ranks were not 1..n and whose output holds live entries,
\* enrichment-backed placeholders and generic placeholders.
C1_Witness ==
    /\ pass.ran
    /\ \E i \in 1..Len(mappedAgents) : mappedAgents[i].rank # i
    /\ \E i \in 1..Len(agents) : agents[i].origin = "rebs"
    /\ \E i \in 1..Len(agents) : agents[i].origin = "generic"

\* C2: a pass over at least MIN_VISIBLE_AGENTS live participants outputs no
\* placeholder entry, whatever the enrichment store holds.
C2_NoBackfillAtMinimum ==
    pass.ran /\ Len(mappedAgents) >= MIN_VISIBLE_AGENTS
        => Placeholders(agents) = {} /\ Len(agents) = Len(mappedAgents)

\* A pass over exactly MIN_VISIBLE_AGENTS participants with a loaded store
\* that holds named records.
C2_Witness ==
    /\ pass.ran
    /\ Len(mappedAgents) = MIN_VISIBLE_AGENTS
    /\ rebsAgentsLoaded
    /\ NamedRecords(rebsAgentsRef) > 0
    /\ Len(agents) = MIN_VISIBLE_AGENTS

C5_Idempotent ==
    [][(/\ pass.ran /\ pass'.ran
        /\ externalAgents' = externalAgents
        /\ rebsAgentsRef' = rebsAgentsRef
        /\ Placeholders(agents) = {} /\ Placeholders(agents') = {})
       => pass'.changes = <<>>]_vars

\* C6: the events of a pass are exactly one event for every identifier that
\* the old and the new display list show at different ranks, with the old and
\* the new rank, typed up when the new rank is smaller and down when larger.
C6_OneEventPerChangedId ==
    [][pass'.ran /\ Len(previousAgentsRef) > 0
       => DiffExact(previousAgentsRef, agents', pass'.changes)]_vars

\* The statement of C6 on display lists in which no identifier repeats.
DiffExactOnDistinctIds ==
    [][(/\ pass'.ran /\ Len(previousAgentsRef) > 0
        /\ DistinctIds(previousAgentsRef) /\ DistinctIds(agents'))
       => DiffExact(previousAgentsRef, agents', pass'.changes)]_vars

\* A pass that swapped two entries and computed exactly the two events of
\* the swap.
SwapSeen ==
    /\ pass.ran
    /\ Len(agents) = 2
    /\ agents[1].id = IdNumber(2) /\ agents[2].id = IdNumber(1)
    /\ pass.changes =
           << [agentId |-> IdNumber(2), oldRank |-> 2, newRank |-> 1, type |-> "up"],
              [agentId |-> IdNumber(1), oldRank |-> 1, newRank |-> 2, type |-> "down"] >>

\* C7: every event of a pass carries an identifier that both the old and the
\* new display list hold: an entry that appears or disappears gets no event.
C7_NoEventForNewOrGone ==
    [][pass'.ran
       => \A k \in 1..Len(pass'.changes) :
              pass'.changes[k].agentId
                  \in IdsOf(previousAgentsRef) \cap IdsOf(agents')]_vars

\* A pass in which an identifier entered, another left, and a third changed
\* rank.
C7_Witness ==
    pass.ran /\ pass.entered /\ pass.left /\ pass.changes # <<>>

\* C8 as stated, for two passes at the same loaded state of the store: the
\* same number of live participants and the same enrichment store give the
\* same placeholder identifiers.
C8_SameCountSameIds ==
    [][(/\ pass.ran /\ pass'.ran
        /\ Len(mappedAgents') = Len(mappedAgents)
        /\ rebsAgentsRef' = rebsAgentsRef
        /\ rebsAgentsLoaded' = rebsAgentsLoaded)
       => PlaceholderIds(agents') = PlaceholderIds(agents)]_vars

\* C8 amended: two consecutive passes over the same number of live
\* participants with the same names (compared in lower case, trimmed), the
\* same enrichment store and the same loaded state give the same placeholder
\* identifiers in the same order, whatever the order, ranks and identifiers
\* of the live participants.
C8_SameNamesSameIds ==
    [][(/\ pass.ran /\ pass'.ran
        /\ Len(mappedAgents') = Len(mappedAgents)
        /\ NameKeys(mappedAgents') = NameKeys(mappedAgents)
        /\ rebsAgentsRef' = rebsAgentsRef
        /\ rebsAgentsLoaded' = rebsAgentsLoaded)
       => PlaceholderIds(agents') = PlaceholderIds(agents)]_vars

\* A pass that reordered the same live participants over the same store and
\* output both kinds of placeholder.
C8_Witness ==
    /\ pass.ran /\ pass.sameNames /\ pass.sameStore
    /\ pass.changes # <<>>
    /\ \E i \in 1..Len(agents) : agents[i].origin = "rebs"
    /\ \E i \in 1..Len(agents) : agents[i].origin = "generic"

\* C9: in the display list of a pass no placeholder identifier equals the
\* identifier of another entry, live or placeholder.
C9_PlaceholderIdsDistinct ==
    pass.ran =>
        \A i \in Placeholders(agents) :
            \A j \in 1..Len(agents) : agents[i].id = agents[j].id => i = j

RECURSIVE SumOf(_, _, _)
\* the sum of a numeric field over a display list
SumOf(list, field, i) ==
    IF i > Len(list) THEN 0 ELSE list[i][field] + SumOf(list, field, i + 1)

\* C20: after a pass that had a feed summary, the summary shown is the one
\* of the final display list: its participant count is the length of the
\* list, its closed-deal, value and commission totals are the sums over the
\* list, and its top performer is the entry at rank 1.
C20_SummaryOfFinalList ==
    pass.ran /\ externalStats # Null =>
        /\ stats.total_agents = Len(agents)
        /\ stats.total_transactions = SumOf(agents, "closed_transactions", 1)
        /\ stats.total_sales_value = SumOf(agents, "total_value", 1)
        /\ stats.total_commission = SumOf(agents, "total_commission", 1)
        /\ stats.top_performer = IF Len(agents) > 0 THEN agents[1] ELSE Null

\* The part of C20 that the code computes from the final display list.
CommissionOfFinalList ==
    pass.ran /\ externalStats # Null =>
        stats.total_commission = SumOf(agents, "total_commission", 1)

(***************************************************************************)
(* Properties of fetchWithRetry, checked under SpecRetry.                  *)
(***************************************************************************)
\* the upstream fails the first two requests in transport and answers the third
TwoFailuresThenSuccess ==
    /\ Len(script) >= 3
    /\ script[1] \in Throws /\ script[2] \in Throws
    /\ script[3] = "ok"

\* C10: when two transport failures are followed by a success, fetchWithRetry
\* issues no more than 3 requests, does not throw, and returns after exactly
\* 3 requests with the response of the third.
C10_ThreeRequests ==
    TwoFailuresThenSuccess =>
        /\ requests <= 3
        /\ fetchPc # "threw"
        /\ fetchPc = "returned" =>
               /\ requests = 3
               /\ fetchResult = [kind |-> "response", outcome |-> "ok", request |-> 3]

\* The call returned after two failures and a success.
C10_Witness ==
    TwoFailuresThenSuccess /\ fetchPc = "returned" /\ requests = 3

(***************************************************************************)
(* Properties of mapExternalAgentToAgent, checked under SpecMap.           *)
(***************************************************************************)
EnrichableFields == {"avatar", "profile_picture", "email", "phone", "position"}

\* C19: each of avatar, profile_picture, email, phone and position that the
\* live payload carries non-empty has the same value in the mapped entry,
\* whatever the enrichment store holds.
C19_LiveValuesKept ==
    mapInput.called =>
        \A field \in EnrichableFields :
            Truthy(mapInput.agent[field])
                => mapOutput.agent[field] = mapInput.agent[field]

\* A call that filled a missing field from the enrichment record while the
\* payload carried other fields, which it kept.
C19_Witness ==
    /\ mapInput.called
    /\ Falsy(mapInput.agent.avatar) /\ Falsy(mapInput.agent.profile_picture)
    /\ Falsy(mapInput.agent.phone)
    /\ Truthy(mapInput.agent.email) /\ Truthy(mapInput.agent.position)
    /\ mapOutput.agent.avatar = "rebs.png"
    /\ mapOutput.agent.phone = "0722"
    /\ mapOutput.agent.email = mapInput.agent.email
    /\ mapOutput.agent.position = mapInput.agent.position

(***************************************************************************)
(* Properties of useLeaderboardStream, checked under SpecStream.  In a     *)
(* step that ran a callback, handled' names the callback and, for an       *)
(* 'update' event, carries the message.                                    *)
(***************************************************************************)
\* a message that is JSON but fails the schema, reports success = false,
\* or carries no data
Refused(message) ==
    /\ message.parses
    /\ ~message.valid \/ ~message.success \/ message.data = Null

\* C13: an 'update' message that fails schema validation, reports
\* success = false or lacks data replaces neither the payload nor the summary
\* held; no pass runs, so the display list, the summary shown and the
\* rank-change events stay as they were.
C13_RefusedUpdateKeepsData ==
    [][handled'.callback = "update" /\ Refused(handled'.message)
       => /\ externalAgents' = externalAgents
          /\ externalStats' = externalStats
          /\ ~pass'.ran
          /\ agents' = agents
          /\ stats' = stats
          /\ rankChanges' = rankChanges]_vars

\* A message with success = false that carried a payload other than the one
\* held was refused: the payload held is still the last accepted one.
C13_Witness ==
    /\ handled.callback = "update"
    /\ ~handled.message.success
    /\ handled.message.data # Null
    /\ handled.message.data.agents # externalAgents
    /\ externalAgents # <<>>
    /\ externalAgents = lastGood.agents
    /\ error = "API request failed"

\* C14: the payload and the summary held are always those of the last update
\* that was accepted, and a step that handles an 'error' event sets error,
\* clears isConnected and leaves the payload, the summary and the display
\* list alone.
C14_FailureKeepsData ==
    /\ [](externalAgents = lastGood.agents /\ externalStats = lastGood.stats)
    /\ [][handled'.callback = "error"
          => /\ error' # NoError
             /\ ~isConnected'
             /\ externalAgents' = externalAgents
             /\ externalStats' = externalStats
             /\ agents' = agents
             /\ stats' = stats]_vars

\* The connection failed while a payload was held and shown.
C14_Witness ==
    /\ handled.callback = "error"
    /\ error = "Connection error"
    /\ ~isConnected
    /\ externalAgents # <<>>
    /\ externalAgents = lastGood.agents
    /\ Len(agents) = Len(externalAgents)

\* C15: the reconnect delay never exceeds MAX_RECONNECT_DELAY; onopen resets
\* it to RECONNECT_RESET_DELAY, so it has that value whenever a message can
\* arrive; each 'error' event doubles it, up to MAX_RECONNECT_DELAY.
C15_ReconnectBackoff ==
    /\ [](reconnectDelayRef <= MAX_RECONNECT_DELAY)
    /\ [](eventSource = "open" => reconnectDelayRef = RECONNECT_RESET_DELAY)
    /\ [][handled'.callback = "open"
          => reconnectDelayRef' = RECONNECT_RESET_DELAY]_vars
    /\ [][handled'.callback = "error"
          => reconnectDelayRef' = Min(2 * reconnectDelayRef, MAX_RECONNECT_DELAY)]_vars

\* Consecutive failures have driven the delay to its maximum.
C15_Witness ==
    /\ handled.callback = "error"
    /\ reconnectDelayRef = MAX_RECONNECT_DELAY
    /\ reconnectTimer

\* C16: once the cleanup has run, the EventSource is closed and no reconnect
\* timer is pending, and no callback invoked afterwards changes the payload,
\* the summary, error or isConnected.
C16_NothingAfterCleanup ==
    /\ [](~isMountedRef => eventSource = "none" /\ ~reconnectTimer)
    /\ [][~isMountedRef
          => /\ externalAgents' = externalAgents
             /\ externalStats' = externalStats
             /\ error' = error
             /\ isConnected' = isConnected]_vars

\* Callbacks were invoked after the cleanup of a hook that was connected and
\* held a payload.
C16_Witness ==
    /\ ~isMountedRef
    /\ handled.callback = "late"
    /\ lateCallbacks > 1
    /\ isConnected
    /\ externalAgents # <<>>

(***************************************************************************)
(* Claims about the polling hook, checked under SpecPoll.                  *)
(***************************************************************************)
\* fetchWithRetry has handed a 304 to fetchLeaderboardInternal, which has not
\* yet looked at it
NotModifiedPending ==
    /\ pollPc \in {"primary", "fallback"}
    /\ fetchPc = "returned"
    /\ fetchResult.outcome = "not_modified"

\* C12: when a request carrying the ETag of an earlier fetch is answered with
\* 304, the fetch ends there: the stored agents and stats stay as they are
\* (and with them the list the rank changes are computed from), no error is
\* raised and no other URL is tried.
C12_NotModifiedKeepsPayload ==
    /\ [](NotModifiedPending => lastETagRef # NoETag)
    /\ [][(NotModifiedPending /\ pollStep' # "cleanup")
            => /\ pollPc' = "idle"
               /\ polledAgents' = polledAgents
               /\ polledStats' = polledStats
               /\ pollError' = pollError
               /\ pollIsLoading' = pollIsLoading
               /\ lastETagRef' = lastETagRef
               /\ UNCHANGED <<externalAgents, agents, rankChanges, pass>>]_vars

\* a 304 has been answered to a hook that holds agents of an earlier fetch
C12_Witness ==
    /\ pollStep = "not_modified"
    /\ lastETagRef # NoETag
    /\ Len(polledAgents) > 0
    /\ pollMountedRef

\* the requests of one fetchWithRetry were retried to the end: three requests
\* with waits of 1 s and 2 s between them
RetriedToTheEnd ==
    /\ requests = RETRY_ATTEMPTS
    /\ waits = <<RETRY_BACKOFF_BASE_MS, 2 * RETRY_BACKOFF_BASE_MS>>

\* C11: an error reaches the caller only after the request was made three
\* times with waits of 1 s and 2 s, whatever the kind of failure: a non-2xx
\* status, a network error, a body that is not JSON, a body that fails the
\* schema.
C11_ErrorOnlyAfterRetries ==
    pollStep = "failed" => RetriedToTheEnd

\* the part of C11 that the code keeps: a failure of the transport (a thrown
\* fetch, a timeout, a status outside 2xx) is retried to the end on the URL
\* it happened on, before the direct URL is tried and before an error is set
TransportFailureRetried ==
    [][(/\ fetchPc \in {"returned", "threw"}
        /\ fetchResult.outcome # "ok"
        /\ pollStep' \in {"failed", "fallback"})
          => RetriedToTheEnd]_vars

\* a body that fails is not retried at all: the error is set after a single
\* request to each URL
BodyFailureNotRetried ==
    /\ pollStep = "failed"
    /\ fetchResult.outcome = "ok"
    /\ requests = 1
    /\ waits = <<>>
    /\ pollError \in {"Unexpected token in JSON", "Invalid API response"}

\* after the cleanup of the polling hook no backoff sleep ends in a new
\* request
SleepCancelledByCleanup ==
    [][~pollMountedRef => requests' = requests]_vars

\* after the cleanup of the polling hook lastETagRef is not written
ETagKeptAfterCleanup ==
    [][~pollMountedRef => lastETagRef' = lastETagRef]_vars

\* C17: the teardown cancels the pending retry waits, and nothing that
\* belongs to the torn-down hook changes its state afterwards, the ETag ref
\* included.
C17_TeardownCancels ==
    SleepCancelledByCleanup /\ ETagKeptAfterCleanup

\* the part of C17 that the code keeps: the React state of the polling hook
\* is not set after the cleanup
StateKeptAfterCleanup ==
    [][~pollMountedRef => UNCHANGED <<polledAgents, polledStats, pollError,
                                      pollIsLoading>>]_vars

\* a response with a payload and an ETag is processed after the cleanup
LateResponse ==
    /\ ~pollMountedRef
    /\ pollStep = "applied"
    /\ lastETagRef # NoETag

(***************************************************************************)
(* Claims about the pollers in time, checked under SpecTime.               *)
(***************************************************************************)
\* the requests that are out and not yet answered or aborted
RequestsInFlight == {i \in 1..Len(flights) : flights[i].pc = "request"}

\* C18: the timeout of a request fires before the next tick of the interval,
\* so a poller never has two upstream requests in flight at once.
C18_NoOverlap ==
    Cardinality(RequestsInFlight) <= 1

\* the tick of the interval has started a request while the request before
\* it, not yet timed out, is still unanswered
OverlapAtTick(p) ==
    /\ poller = p
    /\ Len(flights) = 2
    /\ flights[1].pc = "request" /\ flights[1].attempt = 0
    /\ flights[1].t = Interval(p) /\ flights[1].t < Timeout(p)
    /\ flights[2].pc = "request" /\ flights[2].t = 0

HookOverlap == OverlapAtTick("hook")
RouteOverlap == OverlapAtTick("route")

(***************************************************************************)
(* Further claims about the stream hook, checked under SpecStream.         *)
(***************************************************************************)
\* the 'error' listener runs in the mounted hook and closes the connection
ErrorStep ==
    /\ isMountedRef
    /\ eventSource \in {"connecting", "open"}
    /\ eventSource' = "none"
    /\ handled'.callback = "error"

\* C22: the reconnect is scheduled with the delay held when the connection
\* failed and the delay is doubled only afterwards, so the first reconnect
\* after a connection that had opened waits the floor delay, not twice it.
C22_ScheduledThenDoubled ==
    /\ [][ErrorStep => scheduledDelay' = reconnectDelayRef]_vars
    /\ [][(ErrorStep /\ eventSource = "open")
            => scheduledDelay' \in {INITIAL_RECONNECT_DELAY, RECONNECT_RESET_DELAY}]_vars

\* what the listener does instead: the delay is doubled first and the timer
\* is set with the doubled delay
DoubledThenScheduled ==
    [][ErrorStep => /\ reconnectDelayRef' = Min(2 * reconnectDelayRef, MAX_RECONNECT_DELAY)
                    /\ scheduledDelay' = reconnectDelayRef']_vars

\* a connection that had opened fails: every such reconnect is set to
\* twice the delay that onopen had stored
ReconnectAfterOpenWaitsTwice ==
    [][(ErrorStep /\ handled.callback = "open")
          => scheduledDelay' = 2 * RECONNECT_RESET_DELAY]_vars

\* the first failure after the mount, before any connection has opened, has
\* set the timer to twice the initial delay
FirstReconnectDoubled ==
    /\ handled.callback = "error"
    /\ reconnectTimer
    /\ scheduledDelay = 2 * INITIAL_RECONNECT_DELAY

\* a 'ping' event is handled by the mounted hook
PingStep ==
    /\ isMountedRef
    /\ eventSource = "open"
    /\ handled'.callback = "ping"

\* C29: a keepalive ping sets isConnected and nothing else: the payload and
\* summary held, the error and the reconnect delay stay as they are, no
\* pass runs, and the display list, its summary and the rank changes are
\* unchanged.
C29_PingOnlyConfirms ==
    [][PingStep => /\ isConnected'
                   /\ ~pass'.ran
                   /\ UNCHANGED <<externalAgents, externalStats, isLoading, error,
                                  reconnectDelayRef, scheduledDelay, eventSource,
                                  mappedAgents, previousAgentsRef, agents, stats,
                                  rankChanges>>]_vars

\* a ping has arrived at a hook that holds a payload, rank changes and an
\* error of a refused update
C29_Witness ==
    /\ handled.callback = "ping"
    /\ isMountedRef /\ isConnected
    /\ Len(externalAgents) > 0
    /\ Len(rankChanges) > 0
    /\ error # NoError

(***************************************************************************)
(* Further claims about the reconciliation pass, checked under Spec.       *)
(***************************************************************************)
\* the render that commits the load of the enrichment store, and its pass
LoadStep ==
    /\ loadedQueued /\ ~loadedQueued'
    /\ ~rebsAgentsLoaded /\ rebsAgentsLoaded'

\* C23: the pass that the load of the enrichment store triggers looks the
\* live participants up again: its live entries are the live payload mapped
\* against the store as loaded, so fields that were missing are filled.
C23_LoadRetriesLookups ==
    [][LoadStep => /\ mappedAgents' = MappedTable[externalAgents, rebsAgentsRef]
                   /\ agents' = CombinedTable[MappedTable[externalAgents, rebsAgentsRef],
                                              rebsAgentsRef, TRUE]]_vars

\* the store is loaded and a pass has run, and the live entries are still
\* those mapped against the empty store
StaleAfterLoad ==
    /\ rebsAgentsLoaded /\ pass.ran
    /\ Len(externalAgents) > 0
    /\ mappedAgents = MappedTable[externalAgents, <<>>]
    /\ mappedAgents # MappedTable[externalAgents, rebsAgentsRef]

\* the part of C23 that the code keeps: a new live payload is looked up
\* against the store as it is when the payload arrives
UpdateLooksUpAgain ==
    [][externalAgents' # externalAgents
          => mappedAgents' = MappedTable[externalAgents', rebsAgentsRef]]_vars

(***************************************************************************)
(* Further claims about mapExternalAgentToAgent, checked under SpecMap.    *)
(***************************************************************************)
\* the index of the record that findRebsAgent gives for the participant of
\* the call, 0 for none
MatchOfCall ==
    findRebsAgent(mapInput.store, mapInput.agent.name,
                  Or2(mapInput.agent.first_name, Undefined),
                  Or2(mapInput.agent.last_name, Undefined))

\* the contact fields of the call that the payload leaves empty and the
\* matching record carries have the record's value in the entry returned
ContactFilled(found) ==
    \A field \in {"email", "phone", "position"} :
        (Falsy(mapInput.agent[field]) /\ Truthy(mapInput.store[found][field]))
            => mapOutput.agent[field] = mapInput.store[found][field]

\* the same for the picture, which the payload leaves empty when it has
\* neither avatar nor profile_picture
AvatarFilled(found) ==
    (Falsy(mapInput.agent.avatar) /\ Falsy(mapInput.agent.profile_picture))
        => mapOutput.agent.avatar = Or2(mapInput.store[found].avatar,
                                        mapInput.store[found].profile_picture)

\* C24: for a participant with a matching enrichment record, every one of
\* avatar, email, phone and position that is empty in the payload is filled
\* from the record, whether or not the other fields are present.
C24_EachEmptyFieldFilled ==
    (mapInput.called /\ MatchOfCall > 0)
        => ContactFilled(MatchOfCall) /\ AvatarFilled(MatchOfCall)

\* the part of C24 that the code keeps: the fields are filled when the
\* payload has no picture
FilledWhenNoPicture ==
    (/\ mapInput.called /\ MatchOfCall > 0
     /\ Falsy(mapInput.agent.avatar) /\ Falsy(mapInput.agent.profile_picture))
        => ContactFilled(MatchOfCall) /\ AvatarFilled(MatchOfCall)

\* a participant with a picture and no email, whose record has an email,
\* is returned without email
EmailLeftEmpty ==
    /\ mapInput.called /\ MatchOfCall > 0
    /\ Truthy(mapInput.agent.avatar)
    /\ Falsy(mapInput.agent.email)
    /\ Truthy(mapInput.store[MatchOfCall].email)
    /\ mapOutput.agent.email = Undefined

(***************************************************************************)
(* Claims about findRebsAgent, checked under SpecFind.                     *)
(***************************************************************************)
Normal(text) == Trim(ToLowerCase(text))

\* record i of the store of the call has the full name asked for
FullNameMatch(i) ==
    /\ mapInput.store[i].name # Undefined
    /\ Normal(mapInput.store[i].name) = Normal(mapInput.name)

\* record i has the first and the last name asked for
FirstLastMatch(i) ==
    /\ Truthy(mapInput.firstName) /\ Truthy(mapInput.lastName)
    /\ mapInput.store[i].first_name # Undefined
    /\ mapInput.store[i].last_name # Undefined
    /\ Normal(mapInput.store[i].first_name) = Normal(mapInput.firstName)
    /\ Normal(mapInput.store[i].last_name) = Normal(mapInput.lastName)

\* record i has the first name asked for, or a full name that begins with it
FirstNameMatch(i) ==
    /\ Truthy(mapInput.firstName)
    /\ \/ /\ mapInput.store[i].first_name # Undefined
          /\ Normal(mapInput.store[i].first_name) = Normal(mapInput.firstName)
       \/ /\ mapInput.store[i].name # Undefined
          /\ Normal(mapInput.store[i].name) # ""
          /\ StartsWith(Normal(mapInput.store[i].name), Normal(mapInput.firstName))

StoreIndices == 1..Len(mapInput.store)

\* i is the first record in store order that matches in the given way
FirstFull(i) == FullNameMatch(i) /\ \A j \in 1..(i - 1) : ~FullNameMatch(j)
FirstFirstLast(i) == FirstLastMatch(i) /\ \A j \in 1..(i - 1) : ~FirstLastMatch(j)
FirstFirstName(i) == FirstNameMatch(i) /\ \A j \in 1..(i - 1) : ~FirstNameMatch(j)

\* C25: findRebsAgent returns the first record in store order whose full
\* name matches, case ignored; if there is none, the first whose first and
\* last name match; if there is none, the first whose first name matches or
\* whose full name begins with the first name; and no record when none
\* matches, as on an empty store.
C25_MatchOrder ==
    mapOutput.called =>
        IF \E i \in StoreIndices : FullNameMatch(i)
        THEN mapOutput.found \in StoreIndices /\ FirstFull(mapOutput.found)
        ELSE IF \E i \in StoreIndices : FirstLastMatch(i)
        THEN mapOutput.found \in StoreIndices /\ FirstFirstLast(mapOutput.found)
        ELSE IF \E i \in StoreIndices : FirstNameMatch(i)
        THEN mapOutput.found \in StoreIndices /\ FirstFirstName(mapOutput.found)
        ELSE mapOutput.found = 0

\* a call whose result is the second record of the store, by its full name,
\* although the first record matches the first name asked for
C25_Witness ==
    /\ mapOutput.called
    /\ Len(mapInput.store) = 2
    /\ mapOutput.found = 2
    /\ FullNameMatch(2)
    /\ FirstNameMatch(1) /\ ~FullNameMatch(1)

\* calls that are settled by the second and by the third way of matching,
\* and a call on an empty store
FoundByFirstLast ==
    /\ mapOutput.called /\ mapOutput.found = 2
    /\ FirstLastMatch(2) /\ ~FullNameMatch(2) /\ FirstNameMatch(1)
FoundByPrefix ==
    /\ mapOutput.called /\ mapOutput.found > 0
    /\ ~FullNameMatch(mapOutput.found) /\ ~FirstLastMatch(mapOutput.found)
    /\ mapInput.store[mapOutput.found].first_name = "Maria"
NothingOnEmptyStore ==
    /\ mapOutput.called /\ mapInput.store = <<>>
    /\ Truthy(mapInput.firstName) /\ mapOutput.found = 0

\* while the store is not loaded and no load waits for its render, the
\* lookups of the pass read an empty store
LookupBeforeLoadSeesEmptyStore ==
    (~rebsAgentsLoaded /\ ~loadedQueued) => rebsAgentsRef = <<>>

(***************************************************************************)
(* Claims about the list the pass builds, checked under SpecCombine.       *)
(***************************************************************************)
LiveCount == Len(mapInput.mapped)
FinalList == mapOutput.list

\* an entry without its rank
Unranked(entry) == [entry EXCEPT !.rank = 0]

\* how often an entry, its rank set aside, occurs in a list
Occurrences(list, entry) ==
    Cardinality({i \in 1..Len(list) : Unranked(list[i]) = Unranked(entry)})

\* the ranks the feed gave to the participants that a final entry shows
FeedRanks(entry) ==
    {mapInput.mapped[i].rank :
        i \in {j \in 1..LiveCount : Unranked(mapInput.mapped[j]) = Unranked(entry)}}

\* the final list begins with the live participants, each as often as the
\* payload holds it, and everything after them is backfill
LiveThenBackfill ==
    /\ Len(FinalList) >= LiveCount
    /\ \A i \in 1..Len(FinalList) :
          /\ FinalList[i].rank = i
          /\ (FinalList[i].origin = "live") = (i <= LiveCount)
    /\ \A i \in 1..LiveCount :
          Occurrences(SubSeq(FinalList, 1, LiveCount), FinalList[i])
              = Occurrences(mapInput.mapped, FinalList[i])

\* neighbours among the live entries are in the order of their feed ranks,
\* and in the order of their names where the ranks are equal
LiveInFeedOrder ==
    \A i \in 1..(LiveCount - 1) :
        \E r1 \in FeedRanks(FinalList[i]), r2 \in FeedRanks(FinalList[i + 1]) :
            \/ r1 < r2
            \/ r1 = r2 /\ LocaleCompare(FinalList[i].name, FinalList[i + 1].name) <= 0

\* the enrichment-backed placeholders are in the order of their names and
\* no generic placeholder stands before one of them
BackfillInNameOrder ==
    \A i \in (LiveCount + 1)..(Len(FinalList) - 1) :
        /\ FinalList[i].origin = "generic" => FinalList[i + 1].origin = "generic"
        /\ (FinalList[i].origin = "rebs" /\ FinalList[i + 1].origin = "rebs")
              => LocaleCompare(FinalList[i].name, FinalList[i + 1].name) <= 0

\* C26: the final list is the live entries followed by the backfill; the
\* live entries are in ascending feed rank, ties in name order; the
\* enrichment-backed placeholders are in name order and before every generic
\* placeholder.
C26_LiveThenBackfill ==
    mapOutput.called => LiveThenBackfill /\ LiveInFeedOrder /\ BackfillInNameOrder

\* a pass over a payload that is out of rank order, filled with two
\* enrichment-backed placeholders whose records are out of name order, and
\* with generic placeholders after them
C26_Witness ==
    /\ mapOutput.called
    /\ LiveCount = 3
    /\ mapInput.mapped[1].rank > mapInput.mapped[3].rank
    /\ Len(mapInput.store) = 3
    /\ LocaleCompare(getRebsFullName(mapInput.store[1]),
                     getRebsFullName(mapInput.store[3])) > 0
    /\ FinalList[4].origin = "rebs" /\ FinalList[5].origin = "rebs"
    /\ FinalList[4].name # FinalList[5].name
    /\ FinalList[MIN_VISIBLE_AGENTS].origin = "generic"

\* a pass that has put two participants of equal feed rank in name order,
\* against the order of the payload
TieBrokenByName ==
    /\ mapOutput.called
    /\ LiveCount = 2
    /\ mapInput.mapped[1].rank = mapInput.mapped[2].rank
    /\ FinalList[1].name = mapInput.mapped[2].name
    /\ FinalList[1].name # FinalList[2].name

\* C27: every placeholder of the final list, enrichment-backed or generic,
\* has closed_transactions, total_value, total_commission and xp equal to 0.
C27_PlaceholdersCarryZero ==
    mapOutput.called =>
        \A i \in 1..Len(FinalList) :
            FinalList[i].origin # "live"
                => /\ FinalList[i].closed_transactions = 0
                   /\ FinalList[i].total_value = 0
                   /\ FinalList[i].total_commission = 0
                   /\ FinalList[i].xp = 0

\* a pass with no live participant whose list is made of enrichment-backed
\* placeholders only
C27_Witness ==
    /\ mapOutput.called
    /\ LiveCount = 0
    /\ Len(FinalList) = 3
    /\ \A i \in 1..Len(FinalList) : FinalList[i].origin = "rebs"

\* a pass with live participants whose list holds both kinds of placeholder
BothKindsOfPlaceholder ==
    /\ mapOutput.called
    /\ LiveCount > 0
    /\ \E i \in 1..Len(FinalList) : FinalList[i].origin = "rebs"
    /\ \E i \in 1..Len(FinalList) : FinalList[i].origin = "generic"

(***************************************************************************)
(* Claims about the enrichment load, checked under Spec.                   *)
(***************************************************************************)
\* the attempts issued so far: retryCount counts from 0
AttemptsIssued == IF rebsFetch = "unmounted" THEN 0 ELSE retryCount + 1

AtMostThreeAttempts ==
    /\ retryCount \in 0..(REBS_FETCH_RETRIES - 1)
    /\ retryDelay \in {0, REBS_FETCH_RETRY_DELAY_MS}
    /\ (retryCount > 0) = (retryDelay = REBS_FETCH_RETRY_DELAY_MS)

\* a failure of an attempt but the last schedules the next with the fixed
\* delay; a failure of the last ends the load, with the store marked loaded
\* or the mark queued for the next render
FailureRetriesOrGivesUp ==
    (rebsFetch = "pending" /\ ~loadedQueued /\ retryCount' # retryCount)
        => /\ retryCount < REBS_FETCH_RETRIES - 1
           /\ retryCount' = retryCount + 1
           /\ retryDelay' = REBS_FETCH_RETRY_DELAY_MS
           /\ rebsFetch' = "pending"

LastFailureMarksLoaded ==
    (rebsFetch = "pending" /\ retryCount = REBS_FETCH_RETRIES - 1
        /\ rebsFetch' = "done")
        => rebsAgentsLoaded' \/ loadedQueued'

\* C30: the enrichment load makes at most REBS_FETCH_RETRIES = 3 attempts,
\* each retry is scheduled with the same delay of 2000 ms, and the failure
\* of the last attempt ends the load and marks the store as loaded.
C30_ThreeAttemptsFixedDelay ==
    [][/\ AtMostThreeAttempts'
       /\ FailureRetriesOrGivesUp
       /\ LastFailureMarksLoaded
       /\ (rebsFetch = "done" => rebsFetch' = "done" /\ retryCount' = retryCount)]_vars

\* the load has failed three times and is over, the second retry scheduled
\* like the first, with nothing loaded and the store marked as loaded
C30_Witness ==
    /\ rebsFetch = "done"
    /\ AttemptsIssued = REBS_FETCH_RETRIES
    /\ retryDelay = REBS_FETCH_RETRY_DELAY_MS
    /\ Len(rebsAgentsRef) = 0
    /\ rebsAgentsLoaded

(***************************************************************************)
(* The timers that clear rankChanges: the pass and simulateChanges each    *)
(* start one when they set a non-empty list.  Time passes in steps of      *)
(* TimeStep ms; a timer that is due fires before time passes on.           *)
(***************************************************************************)
PASS_CLEAR_DELAY == 3000
SIMULATE_CLEAR_DELAY == 5000
ClearDelay(by) == IF by = "simulate" THEN SIMULATE_CLEAR_DELAY ELSE PASS_CLEAR_DELAY

\* A variant of the scheduling below that starts no timer.
ScheduleClearNever(by, changes) ==
    /\ clearTimers' = clearTimers
    /\ shown' = IF Len(changes) > 0 THEN [by |-> by, age |-> 0] ELSE shown

\* if (changes.length > 0) { setRankChanges(changes); setTimeout(..., delay) }
ScheduleClear(by, changes) ==
    IF Len(changes) > 0
    THEN /\ Len(clearTimers) < MaxClearTimers
         /\ clearTimers' = Append(clearTimers, ClearDelay(by))
         /\ shown' = [by |-> by, age |-> 0]
    ELSE UNCHANGED <<clearTimers, shown>>

\* a step of the hook that may run the pass, with the timer the pass starts
WithPassTimer(step) ==
    /\ step
    /\ IF pass'.ran THEN ScheduleClear("pass", pass'.changes)
       ELSE UNCHANGED <<clearTimers, shown>>

\* the draws of Math.random() in one call of simulateChanges, as the integer
\* each one is turned into: one for the points of every entry, and one for
\* the closed transactions and one for the value of all entries
XpDraws(n) ==
    {[i \in 1..n |-> 1000],
     [i \in 1..n |-> IF i = 2 THEN 2000 ELSE 1000],
     [i \in 1..n |-> IF i = 1 THEN 0 ELSE 1000]}
TransactionDraws == {0, 5}
ValueDraws == {10000}

RECURSIVE InsertByXp(_, _, _)
\* the place of x in a list sorted by (b.xp || 0) - (a.xp || 0): after the
\* entries that have at least its points
InsertByXp(sorted, x, i) ==
    IF i > Len(sorted) THEN Append(sorted, x)
    ELSE IF sorted[i].xp < x.xp
         THEN SubSeq(sorted, 1, i - 1) \o <<x>> \o SubSeq(sorted, i, Len(sorted))
         ELSE InsertByXp(sorted, x, i + 1)

RECURSIVE SortByXp(_, _)
SortByXp(list, n) ==
    IF n = 0 THEN <<>> ELSE InsertByXp(SortByXp(list, n - 1), list[n], 1)

\* the list simulateChanges builds from agents and the draws
Shuffled(list, xpDraw, transactionDraw, valueDraw) ==
    LET adjusted ==
            [i \in 1..Len(list) |->
                LET adjustedCommission == Max(0, list[i].xp + xpDraw[i] - 1000)
                IN [list[i] EXCEPT
                       !.xp = adjustedCommission,
                       !.level = (adjustedCommission \div 1000) + 1,
                       !.closed_transactions =
                           Max(0, list[i].closed_transactions + transactionDraw - 5),
                       !.total_value =
                           Max(0, list[i].total_value + valueDraw - 10000)]]
    IN AssignRanks(SortByXp(adjusted, Len(adjusted)))

\* A variant of simulateChanges below that hands its list to setAgents but
\* leaves previousAgentsRef.current as the last pass stored it.
simulateChangesKeepingRef(xpDraw, transactionDraw, valueDraw) ==
    /\ rebsFetch # "unmounted" /\ ~loadedQueued
    /\ Len(agents) > 0
    /\ \A i \in 1..Len(agents) : agents[i].xp < MaxXp
    /\ LET shuffled == Shuffled(agents, xpDraw, transactionDraw, valueDraw)
           changes == detectRankChanges(agents, shuffled)
       IN /\ rankChanges' = IF Len(changes) > 0 THEN changes ELSE rankChanges
          /\ ScheduleClear("simulate", changes)
          /\ previousAgentsRef' = previousAgentsRef
          /\ agents' = shuffled
          /\ stats' = [total_agents |-> Len(shuffled),
                       total_transactions |-> SumOf(shuffled, "closed_transactions", 1),
                       total_sales_value |-> SumOf(shuffled, "total_value", 1),
                       total_commission |-> SumOf(shuffled, "total_commission", 1),
                       top_performer |-> shuffled[1]]
    /\ pass' = [pass EXCEPT !.ran = FALSE]
    /\ UNCHANGED <<externalAgents, externalStats, isLoading, mappedAgents,
                   rebsAgentsRef, rebsAgentsLoaded, loadedQueued, rebsFetch,
                   retryCount, retryDelay>>

simulateChanges(xpDraw, transactionDraw, valueDraw) ==
    /\ rebsFetch # "unmounted" /\ ~loadedQueued
    /\ Len(agents) > 0
    /\ \A i \in 1..Len(agents) : agents[i].xp < MaxXp
    /\ LET shuffled == Shuffled(agents, xpDraw, transactionDraw, valueDraw)
           changes == detectRankChanges(agents, shuffled)
       IN /\ rankChanges' = IF Len(changes) > 0 THEN changes ELSE rankChanges
          /\ ScheduleClear("simulate", changes)
          /\ previousAgentsRef' = shuffled
          /\ agents' = shuffled
          /\ stats' = [total_agents |-> Len(shuffled),
                       total_transactions |-> SumOf(shuffled, "closed_transactions", 1),
                       total_sales_value |-> SumOf(shuffled, "total_value", 1),
                       total_commission |-> SumOf(shuffled, "total_commission", 1),
                       top_performer |-> shuffled[1]]
    /\ pass' = [pass EXCEPT !.ran = FALSE]
    /\ UNCHANGED <<externalAgents, externalStats, isLoading, mappedAgents,
                   rebsAgentsRef, rebsAgentsLoaded, loadedQueued, rebsFetch,
                   retryCount, retryDelay>>

\* the callback of a timer that is due: setRankChanges([])
ClearFire ==
    /\ \E i \in 1..Len(clearTimers) :
          /\ clearTimers[i] = 0
          /\ \A j \in 1..(i - 1) : clearTimers[j] # 0
          /\ clearTimers' = RemoveAt(clearTimers, i)
    /\ rankChanges' = <<>>
    /\ shown' = NotShown
    /\ pass' = [pass EXCEPT !.ran = FALSE]
    /\ UNCHANGED <<externalAgents, externalStats, isLoading, mappedAgents,
                   rebsAgentsRef, rebsAgentsLoaded, loadedQueued, rebsFetch,
                   retryCount, retryDelay, previousAgentsRef, agents, stats>>

\* TimeStep ms pass while a timer waits and none is due
ClearAdvance ==
    /\ Len(clearTimers) > 0
    /\ \A i \in 1..Len(clearTimers) : clearTimers[i] >= TimeStep
    /\ clearTimers' = [i \in 1..Len(clearTimers) |-> clearTimers[i] - TimeStep]
    /\ shown' = IF shown.by = "none" THEN shown
                ELSE [shown EXCEPT !.age = shown.age + TimeStep]
    /\ UNCHANGED reconVars

\* the timers run: the event loop calls a callback that is due, and time
\* passes otherwise
ClearTimerStep == (ClearFire \/ ClearAdvance) /\ UNCHANGED notClear

\* the live payloads of this part: the same two participants in either order
ClearPayloads == {<<Ana(1), Bob(2)>>, <<Bob(1), Ana(2)>>}

NextClear ==
    \/ WithPassTimer(Mount(<<>>, FALSE)) /\ UNCHANGED notClear
    \/ WithPassTimer(RenderLoaded) /\ UNCHANGED notClear
    \/ WithPassTimer(RebsFetchEmpty) /\ UNCHANGED notClear
    \/ \E payload \in ClearPayloads :
           WithPassTimer(OnUpdate(payload)) /\ UNCHANGED notClear
    \/ \E xpDraw \in XpDraws(Len(agents)), transactionDraw \in TransactionDraws,
          valueDraw \in ValueDraws :
           simulateChanges(xpDraw, transactionDraw, valueDraw) /\ UNCHANGED notClear
    \/ ClearFire /\ UNCHANGED notClear
    \/ ClearAdvance /\ UNCHANGED notClear

\* the callbacks of timers are called once they are due, and time passes
SpecClear == Init /\ [][NextClear]_vars /\ WF_vars(ClearTimerStep)

(***************************************************************************)
(* Claims about the clearing of rankChanges, checked under SpecClear.      *)
(***************************************************************************)
\* a list on display has a timer that clears it no later than the delay of
\* the one that set it
ClearPending ==
    Len(rankChanges) > 0 =>
        /\ shown.by # "none"
        /\ shown.age <= ClearDelay(shown.by)
        /\ \E i \in 1..Len(clearTimers) :
              clearTimers[i] <= ClearDelay(shown.by) - shown.age

\* C28: a non-empty rankChanges set by the pass is empty again at most
\* 3000 ms later, one set by simulateChanges at most 5000 ms later, with
\* no input needed: a timer for it is pending until then, and it fires.
C28_ChangesAreCleared ==
    /\ []ClearPending
    /\ (Len(rankChanges) > 0) ~> (Len(rankChanges) = 0)

\* the changes the pass computed last are no longer on display and no timer
\* is left
C28_Witness ==
    /\ Len(pass.changes) > 0
    /\ Len(rankChanges) = 0
    /\ clearTimers = <<>>
    /\ Len(agents) > 0

\* changes set by simulateChanges at the end of their 5000 ms
SimulatedChangesAtDeadline ==
    /\ Len(rankChanges) > 0
    /\ shown = [by |-> "simulate", age |-> SIMULATE_CLEAR_DELAY]

\* changes set by the pass at the end of their 3000 ms
PassChangesAtDeadline ==
    /\ Len(rankChanges) > 0
    /\ shown = [by |-> "pass", age |-> PASS_CLEAR_DELAY]

\* changes on display while the timer of older changes is still pending
TwoTimersPending ==
    /\ Len(rankChanges) > 0
    /\ Len(clearTimers) = 2
    /\ clearTimers[1] < clearTimers[2]

(***************************************************************************)
(* The stream route (src/src/app/api/leaderboard-stream/route.ts): one     *)
(* stream polls the upstream and relays what changed as 'update' events.   *)
(***************************************************************************)
RECURSIVE RemoveSpacesAt(_, _)
RemoveSpacesAt(s, i) ==
    IF i > Len(s) THEN ""
    ELSE (IF IsSpace(CharAt(s, i)) THEN "" ELSE SubSeq(s, i, i))
         \o RemoveSpacesAt(s, i + 1)

\* whether response.json() gives a value: the bodies drawn are JSON arrays
\* of numbers, or a page of markup
ParsesAsJson(text) == StartsWith(Trim(text), "[")
\* JSON.stringify(await response.json()) for a body that parses: the blanks
\* between the tokens are not part of the value
Stringified(text) == RemoveSpacesAt(text, 1)

RECURSIVE IncludesFrom(_, _, _)
IncludesFrom(s, part, i) ==
    IF i + Len(part) - 1 > Len(s) THEN FALSE
    ELSE SubSeq(s, i, i + Len(part) - 1) = part \/ IncludesFrom(s, part, i + 1)
\* String.prototype.includes
Includes(s, part) == IncludesFrom(s, part, 1)

\* the bodies the upstream sends, each with the ETag it comes with or with
\* none: one value written in three ways, another value, and a page that is
\* not JSON
RelayBodies ==
    {<<"[1]", "v1">>, <<" [1] ", "v1">>, <<"[ 1 ]", NoETag>>, <<"[1]", NoETag>>,
     <<"[2]", "v2">>, <<"[2]", NoETag>>, <<"<html>", "v2">>, <<"<html>", NoETag>>}
Answer(kind, status, etag, contentType, body, message) ==
    [kind |-> kind, status |-> status, etag |-> etag,
     contentType |-> contentType, body |-> body, message |-> message]
\* what the upstream can answer to a request sent with If-None-Match etag
RelayAnswers(etag) ==
    {Answer("response", 200, b[2], "application/json; charset=utf-8", b[1], "") :
        b \in RelayBodies}
    \cup {Answer("response", 200, e, "text/html", "<html>", "") : e \in {NoETag, "v2"}}
    \cup {Answer("response", 500, NoETag, "text/html", "<html>", "Internal Server Error")}
    \cup (IF etag = NoETag THEN {}
          ELSE {Answer("response", 304, etag, "", "", "Not Modified")})
    \cup {Answer("failure", 0, NoETag, "", "", m) : m \in {"fetch failed", "terminated"}}
    \cup {Answer("timeout", 0, NoETag, "", "", "")}

\* sendMessage: nothing is enqueued once isActive is false, and enqueue
\* throws, which is caught, once the client is gone
sendMessage(data, event) ==
    IF isActive /\ ~clientGone
    THEN Append(sent, [event |-> event, data |-> data])
    ELSE sent

\* the catch block of sendMessage is entered: enqueue has thrown.  The
\* second version of the handler then stops the stream (lines 249-265).
EnqueueThrows == isActive /\ clientGone
StopsOnThrow == handler = "second" /\ EnqueueThrows

\* A variant of the comparison below that finds every payload new.
ChangedAlways(dataString) == TRUE

\* dataString !== lastData
Changed(dataString) == dataString # lastData

\* the events of one stream are followed up to MaxSent
RoomToSend == Len(sent) < MaxSent \/ ~isActive \/ clientGone

\* GET: the keep-alive interval is set and the first fetch is awaited
RelayStart(version) ==
    /\ relayPc = "idle"
    /\ relayPc' = "initial"
    /\ handler' = version
    /\ keepAliveInterval' = TRUE
    /\ polls' = 1
    /\ relayFlights' = <<[ifNoneMatch |-> lastETag, poll |-> 1]>>
    /\ relayStep' = RelayStep("start", "", 0, 1)
    /\ UNCHANGED <<lastETag, lastData, isActive, pollInterval, updatePoll,
                   clientGone, sent>>

\* the callback of setInterval(..., POLLING_INTERVAL): fetchLeaderboard()
RelayTick ==
    /\ pollInterval
    /\ isActive
    /\ Len(relayFlights) < MaxRelayFlights
    /\ polls < MaxPolls
    /\ polls' = polls + 1
    /\ relayFlights' = Append(relayFlights, [ifNoneMatch |-> lastETag, poll |-> polls'])
    /\ relayStep' = RelayStep("tick", "", 0, polls')
    /\ UNCHANGED <<lastETag, lastData, isActive, relayPc, handler, pollInterval,
                   keepAliveInterval, updatePoll, clientGone, sent>>

\* the keep-alive ping
RelayPing ==
    /\ keepAliveInterval
    /\ isActive
    /\ RoomToSend
    /\ sent' = sendMessage("ping", "ping")
    /\ isActive' = IF StopsOnThrow THEN FALSE ELSE isActive
    /\ pollInterval' = IF StopsOnThrow THEN FALSE ELSE pollInterval
    /\ keepAliveInterval' = IF StopsOnThrow THEN FALSE ELSE keepAliveInterval
    /\ relayStep' = RelayStep("ping", "", 0, 0)
    /\ UNCHANGED <<lastETag, lastData, relayPc, handler, polls, updatePoll,
                   relayFlights, clientGone>>

\* what fetchLeaderboard does with the answer of the upstream to one call
RelayOutcome(flight, answer) ==
    LET hasData == lastData # NoData
        step(did) == RelayStep(did, answer.body, answer.status, flight.poll)
        keep(did) == /\ UNCHANGED <<lastETag, lastData, sent, updatePoll>>
                     /\ relayStep' = step(did)
        fail(message) ==
            /\ UNCHANGED <<lastETag, lastData, updatePoll>>
            /\ sent' = sendMessage(message, "error")
            /\ relayStep' = step("error")
        etagAfter == IF answer.etag # NoETag THEN answer.etag ELSE lastETag
    IN  IF answer.kind = "timeout" THEN keep("skipped")
        ELSE IF answer.kind = "failure"
        THEN IF hasData /\ Includes(answer.message, "fetch")
             THEN keep("kept") ELSE fail(answer.message)
        ELSE IF answer.status # 200
        THEN IF hasData THEN keep("kept")
             ELSE fail("API returned " \o ToString(answer.status) \o ": " \o answer.message)
        ELSE IF ~Includes(answer.contentType, "application/json")
        THEN /\ lastETag' = etagAfter
             /\ UNCHANGED <<lastData, updatePoll>>
             /\ sent' = IF hasData THEN sent
                        ELSE sendMessage("Expected JSON but received "
                                         \o answer.contentType, "error")
             /\ relayStep' = step(IF hasData THEN "kept" ELSE "error")
        ELSE IF ~ParsesAsJson(answer.body)
        THEN /\ lastETag' = etagAfter
             /\ UNCHANGED <<lastData, updatePoll>>
             /\ sent' = IF hasData THEN sent
                        ELSE sendMessage("Failed to parse JSON response", "error")
             /\ relayStep' = step(IF hasData THEN "kept" ELSE "error")
        ELSE LET dataString == Stringified(answer.body)
             IN /\ lastETag' = etagAfter
                /\ IF Changed(dataString)
                   THEN /\ lastData' = dataString
                        /\ sent' = sendMessage(dataString, "update")
                        /\ updatePoll' = IF isActive /\ ~clientGone
                                         THEN flight.poll ELSE updatePoll
                        /\ relayStep' = step("update")
                   ELSE /\ UNCHANGED <<lastData, sent, updatePoll>>
                        /\ relayStep' = step("same")

\* the upstream answers a fetch.  After the first one start() goes on: the
\* interval is set and the listener for the disconnect of the client added.
RelayRespond(i, answer) ==
    /\ i \in 1..Len(relayFlights)
    /\ RoomToSend
    /\ relayFlights' = RemoveAt(relayFlights, i)
    /\ RelayOutcome(relayFlights[i], answer)
    /\ LET stops == StopsOnThrow /\ relayStep'.did \in {"update", "error"}
       IN /\ isActive' = IF stops THEN FALSE ELSE isActive
          /\ keepAliveInterval' = IF stops THEN FALSE ELSE keepAliveInterval
          /\ pollInterval' = IF relayPc = "initial" THEN TRUE
                             ELSE IF stops THEN FALSE ELSE pollInterval
    /\ relayPc' = IF relayPc = "initial" THEN "polling" ELSE relayPc
    /\ UNCHANGED <<handler, polls, clientGone>>

\* the client disconnects: the listener, once added, stops the stream
ClientDisconnect ==
    /\ relayPc \in {"initial", "polling"}
    /\ ~clientGone
    /\ clientGone' = TRUE
    /\ IF relayPc = "polling"
       THEN isActive' = FALSE /\ pollInterval' = FALSE /\ keepAliveInterval' = FALSE
       ELSE UNCHANGED <<isActive, pollInterval, keepAliveInterval>>
    /\ relayStep' = RelayStep("disconnect", "", 0, 0)
    /\ UNCHANGED <<lastETag, lastData, relayPc, handler, polls, updatePoll,
                   relayFlights, sent>>

RelayAnswered ==
    \E i \in 1..Len(relayFlights) :
        \E answer \in RelayAnswers(relayFlights[i].ifNoneMatch) :
            RelayRespond(i, answer) /\ UNCHANGED notRelay

NextRelay ==
    \/ \E version \in {"first", "second"} : RelayStart(version) /\ UNCHANGED notRelay
    \/ RelayTick /\ UNCHANGED notRelay
    \/ RelayPing /\ UNCHANGED notRelay
    \/ RelayAnswered
    \/ ClientDisconnect /\ UNCHANGED notRelay

SpecRelay == Init /\ [][NextRelay]_vars

\* the callbacks of the two intervals are called while the intervals are
\* set, and every fetch of the upstream ends (it is aborted after 8 s)
SpecRelayLive ==
    /\ Init /\ [][NextRelay]_vars
    /\ WF_vars(RelayTick /\ UNCHANGED notRelay)
    /\ WF_vars(RelayPing /\ UNCHANGED notRelay)
    /\ WF_vars(RelayAnswered)

(***************************************************************************)
(* Claims about the stream route, checked under SpecRelay.                 *)
(***************************************************************************)
\* the places of the 'update' events among the events sent
UpdatesSent == {i \in 1..Len(sent) : sent[i].event = "update"}
\* two 'update' events with no 'update' event between them
ConsecutiveUpdates(i, j) ==
    /\ i \in UpdatesSent /\ j \in UpdatesSent
    /\ i < j
    /\ \A k \in UpdatesSent : ~(i < k /\ k < j)

\* C21: no two consecutive 'update' events of one stream carry the same
\* payload: a fetched payload whose serialization equals the one sent last
\* is not sent again.
C21_NoRepeatedUpdate ==
    \A i, j \in 1..Len(sent) :
        ConsecutiveUpdates(i, j) => sent[i].data # sent[j].data

\* the upstream has sent the value of the last 'update' again, written with
\* other blanks, after an event of another kind, and nothing was relayed
C21_Witness ==
    /\ relayStep.did = "same"
    /\ Len(sent) = 2
    /\ sent[1].event = "update"
    /\ sent[2].event # "update"
    /\ relayStep.body # sent[1].data
    /\ Stringified(relayStep.body) = sent[1].data

\* three 'update' events on one stream, the third with the payload of the
\* first
UpdateReturnsToEarlierPayload ==
    /\ Len(sent) = 3
    /\ \A i \in 1..3 : sent[i].event = "update"
    /\ sent[1].data = sent[3].data

\* two fetches of one stream are in flight and an 'update' has been sent
OverlappingFetchesAfterUpdate ==
    /\ Len(relayFlights) = 2
    /\ UpdatesSent # {}

\* C35: an upstream answer with status 304 never puts an 'error' event on
\* the stream, whatever lastETag and lastData are.
C35_NotModifiedNeverError ==
    [][relayStep'.status = 304 => sent' = sent]_vars

\* lastETag is set while lastData is still null: a response with an ETag
\* whose body was not JSON has been handled
ETagWithoutData ==
    /\ lastETag # NoETag
    /\ lastData = NoData
    /\ relayPc = "polling"

\* the 'error' event that a 304 produced is the last event on the stream
NotModifiedSentAsError ==
    /\ relayStep.status = 304
    /\ relayStep.did = "error"
    /\ Len(sent) > 0
    /\ sent[Len(sent)] = [event |-> "error", data |-> "API returned 304: Not Modified"]

\* with a payload held, a 304 changes nothing and sends nothing
NotModifiedKeepsHeldPayload ==
    [][(relayStep'.status = 304 /\ lastData # NoData)
          => UNCHANGED <<sent, lastData, lastETag>>]_vars

\* C33: the validation token is replaced only by a response whose body was
\* accepted and stored: in the polling hook, lastETagRef changes only in a
\* step that applies the payload.
C33_TokenOnlyWithAcceptedBody ==
    [][lastETagRef' # lastETagRef => pollStep' = "applied"]_vars

\* the polling hook holds a token although it never accepted a payload, and
\* the upstream has answered the next request 'not modified'
NotModifiedWithoutPayload ==
    /\ pollStep = "not_modified"
    /\ lastETagRef # NoETag
    /\ polledAgents = <<>>
    /\ polledStats = Null

\* the same in the stream route: lastETag changes only with an 'update' or
\* with a payload equal to the one held
RouteTokenOnlyWithAcceptedBody ==
    [][lastETag' # lastETag => relayStep'.did \in {"update", "same"}]_vars

(***************************************************************************)
(* A 304 in fetchWithRetry, checked under SpecRetry.                       *)
(***************************************************************************)
\* the step in which fetchWithTimeout settles with a 304
NotModifiedArrives ==
    /\ fetchPc = "request"
    /\ requests < Len(script)
    /\ script[requests + 1] = "not_modified"
    /\ requests' = requests + 1

\* C36: a 304 ends the call of fetchWithRetry: it is returned at once, with
\* no retry and no backoff wait after it.
C36_NotModifiedReturnedAtOnce ==
    [][NotModifiedArrives
          => /\ fetchPc' = "returned"
             /\ fetchResult'.outcome = "not_modified"
             /\ waits' = waits]_vars

\* an upstream that answers 304 every time: the 304 is returned after three
\* requests and two waits
NotModifiedAfterThreeRequests ==
    /\ fetchPc = "returned"
    /\ fetchResult.outcome = "not_modified"
    /\ requests = RETRY_ATTEMPTS
    /\ waits = <<BackoffDelay(0), BackoffDelay(1)>>
    /\ \A i \in 1..RETRY_ATTEMPTS : script[i] = "not_modified"

\* only the 304 of the last attempt is returned
NotModifiedReturnedOnLastAttempt ==
    (fetchPc = "returned" /\ fetchResult.outcome = "not_modified")
        => attempt = RETRY_ATTEMPTS - 1

\* C34: the 'update' events of a stream are sent in the order in which
\* their polls were issued: no response is sent as 'update' after the
\* response of a poll issued later has been sent.
C34_UpdatesInPollOrder ==
    [][updatePoll' # updatePoll => updatePoll' > updatePoll]_vars

\* the second and third poll overlapped; the response of the third was
\* sent first, the response of the second after it and is now in lastData
EarlierPollSentLast ==
    /\ relayStep.did = "update"
    /\ relayStep.poll = 2
    /\ updatePoll = 2
    /\ polls = 3
    /\ Len(sent) >= 2
    /\ sent[Len(sent)].event = "update" /\ sent[Len(sent) - 1].event = "update"
    /\ lastData = sent[Len(sent)].data
    /\ relayFlights = <<>>

\* the 'update' of a poll is never sent twice, and never before the poll
\* was issued
UpdateFromIssuedPoll ==
    /\ updatePoll <= polls
    /\ \A i \in 1..Len(relayFlights) : relayFlights[i].poll # updatePoll

(***************************************************************************)
(* The end of a stream, checked under SpecRelayLive.                       *)
(***************************************************************************)
\* the stream has stopped: no interval is left and no fetch will start
Stopped == ~isActive /\ ~pollInterval /\ ~keepAliveInterval

\* C39: after the client has disconnected the relay stops in the end: both
\* intervals are cleared and no fetch of the upstream is started any more,
\* also when the client disconnects while the first fetch is awaited.
C39_RelayStopsAfterDisconnect == clientGone ~> Stopped

\* the first version of the handler has missed the disconnect: it polls the
\* upstream for a client that is gone
MissedDisconnect ==
    /\ handler = "first"
    /\ clientGone
    /\ isActive /\ pollInterval /\ keepAliveInterval
    /\ relayStep.did = "tick"

\* and nothing ever ends that
MissedDisconnectIsNeverNoticed ==
    [][(handler = "first" /\ clientGone /\ isActive)
          => (isActive' /\ keepAliveInterval')]_vars

\* a disconnect after start() has added its listener stops the stream at
\* once, in both versions
DisconnectWhilePollingStops ==
    [][(relayPc = "polling" /\ ~clientGone /\ clientGone') => Stopped']_vars

\* the second version stops fetching in the end, at the first event it
\* cannot enqueue
SecondVersionStopsFetching == (handler = "second" /\ clientGone) ~> ~isActive

\* but it has set the poll interval after sendMessage cleared it, and no
\* one clears it again
IntervalLeftSet ==
    /\ handler = "second"
    /\ clientGone
    /\ ~isActive /\ ~keepAliveInterval
    /\ pollInterval
    /\ relayFlights = <<>>

(***************************************************************************)
(* The enrichment cache in localStorage.  The mount effect reads it; only  *)
(* a load that brought records writes it.                                  *)
(***************************************************************************)
\* what localStorage holds when the hook mounts: nothing, or a list saved
\* some ms ago, around half the cache duration and around the whole
CacheAges ==
    {0, REBS_CACHE_DURATION_MS \div 2 - 1, REBS_CACHE_DURATION_MS \div 2,
     REBS_CACHE_DURATION_MS \div 2 + 1, REBS_CACHE_DURATION_MS - 1,
     REBS_CACHE_DURATION_MS, REBS_CACHE_DURATION_MS + 1}
StoredCaches ==
    {NoCache} \cup {[data |-> list, age |-> age] :
                       list \in RebsLists \ {<<>>}, age \in CacheAges}

\* loadRebsAgentsFromCache: what it returns, and what it leaves in
\* localStorage
loadRebsAgentsFromCache(stored) ==
    IF stored = NoCache THEN <<>>
    ELSE IF stored.age < REBS_CACHE_DURATION_MS THEN stored.data ELSE <<>>
AfterLoadFromCache(stored) ==
    IF stored # NoCache /\ stored.age >= REBS_CACHE_DURATION_MS THEN NoCache ELSE stored

\* A variant of the test below that refreshes only a cache that has expired.
shouldFetchFreshAtExpiry(stored) ==
    stored = NoCache \/ stored.age > REBS_CACHE_DURATION_MS

\* !cachedTimestamp || (Date.now() - parseInt(cachedTimestamp, 10)) >
\* (REBS_CACHE_DURATION_MS / 2), read after loadRebsAgentsFromCache
shouldFetchFresh(stored) ==
    stored = NoCache \/ stored.age > REBS_CACHE_DURATION_MS \div 2

\* the mount effect with localStorage as it finds it
MountWithCache(stored) ==
    /\ Mount(loadRebsAgentsFromCache(stored),
             ~shouldFetchFresh(AfterLoadFromCache(stored)))
    /\ localStorage' = AfterLoadFromCache(stored)
    /\ loadStep' = "mount"

\* saveRebsAgentsToCache(result.data) in the load that brought records
LoadSuccessWithCache(data) ==
    /\ RebsFetchSuccess(data)
    /\ localStorage' = [data |-> data, age |-> 0]
    /\ loadStep' = "success"

LoadEmptyWithCache ==
    /\ RebsFetchEmpty
    /\ UNCHANGED localStorage
    /\ loadStep' = "empty"

LoadFailWithCache ==
    /\ RebsFetchFail
    /\ UNCHANGED localStorage
    /\ loadStep' = IF rebsFetch' = "done" THEN "failed" ELSE "retry"

RenderWithCache ==
    /\ RenderLoaded
    /\ UNCHANGED localStorage
    /\ loadStep' = "render"

UpdateWithCache(payload) ==
    /\ OnUpdate(payload)
    /\ UNCHANGED localStorage
    /\ loadStep' = "update"

NextCache ==
    \/ \E stored \in StoredCaches : MountWithCache(stored) /\ UNCHANGED notCache
    \/ \E data \in RebsLists : LoadSuccessWithCache(data) /\ UNCHANGED notCache
    \/ LoadEmptyWithCache /\ UNCHANGED notCache
    \/ LoadFailWithCache /\ UNCHANGED notCache
    \/ RenderWithCache /\ UNCHANGED notCache
    \/ \E payload \in ClearPayloads : UpdateWithCache(payload) /\ UNCHANGED notCache

SpecCache == Init /\ [][NextCache]_vars

(***************************************************************************)
(* Claims about the enrichment cache, checked under SpecCache.             *)
(***************************************************************************)
\* a cache older than half the duration and younger than the whole
Stale(stored) ==
    /\ stored # NoCache
    /\ stored.age > REBS_CACHE_DURATION_MS \div 2
    /\ stored.age < REBS_CACHE_DURATION_MS

\* the mount that finds a stale cache puts it in rebsAgentsRef, queues
\* rebsAgentsLoaded, starts the load and leaves the cache as it is
StaleCacheServedAndRefreshed ==
    (loadStep' = "mount" /\ Stale(localStorage'))
        => /\ rebsAgentsRef' = localStorage'.data
           /\ loadedQueued'
           /\ rebsFetch' = "pending"

\* a load that ends without records changes neither rebsAgentsRef nor the
\* cache
FailedRefreshKeepsCache ==
    loadStep' \in {"retry", "failed", "empty"}
        => UNCHANGED <<rebsAgentsRef, localStorage>>

\* C31: a cache older than half the duration of 24 h and younger than the
\* whole is served at mount while a refresh is started; a refresh that
\* fails on all attempts or brings an empty list leaves the records in
\* memory and the cache as they were.
C31_StaleWhileRevalidate ==
    [][StaleCacheServedAndRefreshed /\ FailedRefreshKeepsCache]_vars

\* a stale cache was served, its refresh has failed three times, and the
\* records in memory and in the cache are the ones found at mount
C31_Witness ==
    /\ loadStep = "failed"
    /\ Stale(localStorage)
    /\ rebsAgentsRef = localStorage.data
    /\ retryCount = REBS_FETCH_RETRIES - 1
    /\ rebsFetch = "done"

\* a stale cache whose refresh brought an empty list
StaleCacheKeptOnEmptyList ==
    /\ loadStep = "empty"
    /\ Stale(localStorage)
    /\ rebsAgentsRef = localStorage.data

\* a cache of exactly half the duration is served without a refresh
HalfAgedCacheNotRefreshed ==
    /\ loadStep = "mount"
    /\ localStorage # NoCache
    /\ localStorage.age = REBS_CACHE_DURATION_MS \div 2
    /\ rebsFetch = "done"

(***************************************************************************)
(* The window of a rank-change set, checked under SpecClear.               *)
(***************************************************************************)
\* C37: a non-empty rankChanges stays on display for the whole delay of the
\* one that set it: it is cleared by its own timer only, not by a timer
\* that was started for an earlier set.
C37_ClearedByOwnTimerOnly ==
    [][(Len(rankChanges) > 0 /\ Len(rankChanges') = 0)
          => shown.age = ClearDelay(shown.by)]_vars

\* the changes of a pass have been cleared 1000 ms after they were set, by
\* the timer of the changes before them; their own timer is still pending
ClearedByEarlierTimer ==
    /\ Len(rankChanges) = 0
    /\ Len(pass.changes) > 0
    /\ clearTimers = <<PASS_CLEAR_DELAY - TimeStep>>
    /\ shown = NotShown

\* a set that was set while no timer was pending is cleared by its own
FirstSetClearedByOwnTimer ==
    [][(Len(rankChanges) > 0 /\ Len(rankChanges') = 0 /\ Len(clearTimers) = 1)
          => shown.age = ClearDelay(shown.by)]_vars

(***************************************************************************)
(* The records one pass uses.  A record is used for a live participant     *)
(* when mapExternalAgentToAgent looked it up (the participant has neither  *)
(* avatar nor profile_picture) and findRebsAgent returned it; it is used   *)
(* as a placeholder when createFallbackAgentFromRebs built an entry of the *)
(* final list from it.                                                     *)
(***************************************************************************)
\* the index of the record mapExternalAgentToAgent enriched a participant
\* with (0: no lookup, or no match)
LookedUp(externalAgent, rebsAgents) ==
    IF Falsy(Or2(externalAgent.avatar, externalAgent.profile_picture))
    THEN findRebsAgent(rebsAgents, externalAgent.name,
                       Or2(externalAgent.first_name, Undefined),
                       Or2(externalAgent.last_name, Undefined))
    ELSE 0

MatchedRecords ==
    {LookedUp(mapInput.payload[i], mapInput.store) :
        i \in 1..Len(mapInput.payload)} \ {0}

\* the records of the store from which a placeholder of the final list
\* was built
PlaceholderRecords ==
    {k \in 1..Len(mapInput.store) :
        \E j \in (LiveCount + 1)..Len(FinalList), i \in 0..(Len(mapInput.store) - 1) :
            Unranked(FinalList[j])
                = createFallbackAgentFromRebs(mapInput.store[k], i)}

\* C38: in one pass no enrichment record is used twice: a record that
\* findRebsAgent matched to a live participant is not also emitted as a
\* placeholder in the same output list.
C38_RecordNeverUsedTwice ==
    mapOutput.called => MatchedRecords \cap PlaceholderRecords = {}

\* a pass whose list holds a live participant enriched from a record and a
\* placeholder built from the same record
RecordUsedTwice ==
    /\ mapOutput.called
    /\ MatchedRecords \cap PlaceholderRecords # {}

\* a record matched by its full name is never emitted as a placeholder
FullNameMatchNotEmitted ==
    mapOutput.called =>
        \A i \in 1..Len(mapInput.payload) :
            LET k == LookedUp(mapInput.payload[i], mapInput.store)
            IN (k > 0 /\ k \in ExactNameHits(mapInput.store, mapInput.payload[i].name))
                   => k \notin PlaceholderRecords

\* a pass that enriched a participant by full name and emitted placeholders
FullNameMatchWithPlaceholders ==
    /\ mapOutput.called
    /\ PlaceholderRecords # {}
    /\ \E i \in 1..Len(mapInput.payload) :
          LookedUp(mapInput.payload[i], mapInput.store)
              \in ExactNameHits(mapInput.store, mapInput.payload[i].name)

(***************************************************************************)
(* The list a pass diffs against.  The pass effect and simulateChanges are *)
(* synchronous blocks of one thread: each stores its list in               *)
(* previousAgentsRef.current and hands the same list to setAgents before   *)
(* it returns.                                                             *)
(***************************************************************************)
\* a step in which the pass effect ran
PassStep == pass'.ran /\ <<pass, agents>>' # <<pass, agents>>

\* C32: passes are serialized: the list a pass diffs against is the display
\* list committed by the pass, or the simulateChanges call, that came
\* immediately before it.
C32_PassDiffsAgainstCommittedList ==
    /\ [](previousAgentsRef = agents)
    /\ [][PassStep => pass'.changes = PassChanges(agents, agents')]_vars

\* a pass found rank changes right after simulateChanges had committed a
\* reordered list: the timer of simulateChanges has its full delay left
C32_Witness ==
    /\ pass.ran
    /\ Len(pass.changes) > 0
    /\ previousAgentsRef = agents
    /\ clearTimers = <<SIMULATE_CLEAR_DELAY, PASS_CLEAR_DELAY>>

\* a pass found rank changes right after a pass that had found some
PassAfterPassFoundChanges ==
    /\ pass.ran
    /\ Len(pass.changes) > 0
    /\ clearTimers = <<PASS_CLEAR_DELAY, PASS_CLEAR_DELAY>>

(***************************************************************************)
(* useHistoricalLeaderboard (use-historical-leaderboard.ts) and the        *)
(* snapshot store client (saveMonthlySnapshot, saveSnapshotForMonth).  A   *)
(* month key 'YYYY-MM' is modelled by the number of the month.             *)
(* saveSnapshotForMonth catches every failure and returns false, so the    *)
(* promise of saveMonthlySnapshot always resolves, to true or to false.    *)
(***************************************************************************)
\* isSavingRef.current = true; saveMonthlySnapshot(...) is called with the
\* month key computed just before
StartSave(by) ==
    /\ isSavingRef' = TRUE
    /\ saveFlight' = currentMonth
    /\ saveStep' = SaveStep("started", by)
    /\ UNCHANGED <<lastSavedMonthRef, snapshots>>

SkipSave(by) ==
    /\ saveStep' = SaveStep("skipped", by)
    /\ UNCHANGED <<lastSavedMonthRef, isSavingRef, saveFlight, snapshots>>

\* the body of saveSnapshot, called by both intervals
saveSnapshot(by) ==
    IF agentsLength > 0 /\ ~isSavingRef THEN StartSave(by) ELSE SkipSave(by)

\* a render with new agents or stats: the effect that keeps the refs, then
\* the effect that saves when the month differs from the last one saved
HistoryRender(length) ==
    /\ agentsLength' = length
    /\ IF length > 0 /\ lastSavedMonthRef # currentMonth /\ ~isSavingRef
       THEN StartSave("render") ELSE SkipSave("render")
    /\ UNCHANGED currentMonth

\* setInterval(saveSnapshot, saveInterval)
IntervalSave ==
    /\ saveSnapshot("interval")
    /\ UNCHANGED <<agentsLength, currentMonth>>

\* the interval of one minute: saveSnapshot() if the month is not the one
\* last saved
MonthCheck ==
    /\ IF lastSavedMonthRef # currentMonth THEN saveSnapshot("monthCheck")
       ELSE SkipSave("monthCheck")
    /\ UNCHANGED <<agentsLength, currentMonth>>

\* A variant of the continuation below that assigns lastSavedMonthRef only
\* when the promise resolved to true.
SaveSettlesCheckingResult(ok) ==
    /\ saveFlight # NoMonth
    /\ snapshots' = IF ok THEN snapshots \cup {saveFlight} ELSE snapshots
    /\ lastSavedMonthRef' = IF ok THEN saveFlight ELSE lastSavedMonthRef
    /\ isSavingRef' = FALSE
    /\ saveFlight' = NoMonth
    /\ saveStep' = SaveStep(IF ok THEN "saved" ELSE "failed", "promise")
    /\ UNCHANGED <<agentsLength, currentMonth>>

\* the promise of saveMonthlySnapshot resolves to ok: the store saved the
\* snapshot (true), or the server reported an error or the request failed
\* (false); then() / the code after the await assigns lastSavedMonthRef and
\* finally() resets isSavingRef
SaveSettles(ok) ==
    /\ saveFlight # NoMonth
    /\ snapshots' = IF ok THEN snapshots \cup {saveFlight} ELSE snapshots
    /\ lastSavedMonthRef' = saveFlight
    /\ isSavingRef' = FALSE
    /\ saveFlight' = NoMonth
    /\ saveStep' = SaveStep(IF ok THEN "saved" ELSE "failed", "promise")
    /\ UNCHANGED <<agentsLength, currentMonth>>

\* the calendar reaches the next month
MonthPasses ==
    /\ currentMonth < MaxMonth
    /\ currentMonth' = currentMonth + 1
    /\ saveStep' = SaveStep("none", "calendar")
    /\ UNCHANGED <<lastSavedMonthRef, isSavingRef, agentsLength, saveFlight, snapshots>>

NextHistory ==
    \/ \E length \in 0..1 : HistoryRender(length) /\ UNCHANGED notHistory
    \/ IntervalSave /\ UNCHANGED notHistory
    \/ MonthCheck /\ UNCHANGED notHistory
    \/ \E ok \in BOOLEAN : SaveSettles(ok) /\ UNCHANGED notHistory
    \/ MonthPasses /\ UNCHANGED notHistory

SpecHistory == Init /\ [][NextHistory]_vars

\* C40: lastSavedMonth is set to the current month only after the snapshot
\* store reported a successful save; a save that reports failure leaves
\* lastSavedMonth unchanged.
C40_MarkedOnlyAfterSuccessfulSave ==
    [][lastSavedMonthRef' # lastSavedMonthRef => saveStep'.did = "saved"]_vars

\* the month counts as saved although the store holds no snapshot of it
FailedSaveMarkedSaved ==
    /\ saveStep.did = "failed"
    /\ lastSavedMonthRef = currentMonth
    /\ currentMonth \notin snapshots

\* while the month counts as saved without a snapshot of it, the effect of a
\* render does not try the month again
FailedMonthNotRetriedOnRender ==
    [][(/\ lastSavedMonthRef = currentMonth
        /\ currentMonth \notin snapshots
        /\ saveStep'.by = "render") => saveStep'.did = "skipped"]_vars

\* lastSavedMonthRef is assigned only when a save settles, to the month key
\* the save was started with
MarkedOnlyWhenSaveSettles ==
    [][lastSavedMonthRef' # lastSavedMonthRef
          => saveStep'.did \in {"saved", "failed"} /\ lastSavedMonthRef' = saveFlight]_vars

\* a successful save marks its month
SuccessfulSaveMarked ==
    /\ saveStep.did = "saved"
    /\ lastSavedMonthRef \in snapshots

====
